---- MODULE Spec2Model ----
(***************************************************************************)
(* A model of the RideMatch contract (src/src/providers/WalletProvider.tsx *)
(* lines 62-535): driver registry, ride ledger, nearest-driver matching    *)
(* and settlement.  One action per external function.  A call that reverts *)
(* leaves the contract storage and every balance as they were: it is a     *)
(* stuttering step.  What a call gives back to its caller is the value of  *)
(* two operators: ...Result, "Ok" or the kind of the failure, evaluating   *)
(* the function's requires in the order of the code, and ...Events, the    *)
(* events the call emits when it succeeds.  An action is the call that     *)
(* succeeds; the variables are the contract's storage and the balances.    *)
(*                                                                         *)
(* uint256 arithmetic is checked (solidity ^0.8): with the fares and       *)
(* coordinates of the model no product or sum comes near 2^256, so no     *)
(* operation of the model overflows.                                       *)
(*                                                                         *)
(* The browser side, the wallet-provider store and the wallet session,     *)
(* has its own variables and its own specification, AppSpec; the contract  *)
(* specifications leave those variables as they are, and AppSpec leaves    *)
(* the contract as it is.                                                  *)
(***************************************************************************)
EXTENDS Integers, Sequences, FiniteSets, TLC

\* ------------------------------------------------------------------ bounds
\* The registry and the ledger together hold at most MaxRecords records.
MaxRecords == 3
InitialFunds == 2000

\* ------------------------------------------------------------------ inputs
\* The deployer (the constructor's msg.sender) and the callers.  Any identity
\* may call any function; drivers are registered by two of them (one is the
\* platform owner) and rides are requested by two of them (one is also a
\* driver's owner), so that every pair of roles meets in some identity.
Owner == "owner"
Identities == {"owner", "alice", "dave"}
Registrants == {"owner", "dave"}
Requesters == {"alice", "dave"}
\* address(0), the owner field of a slot that holds no record.
NoAddress == "0x0"
\* address(this), the account that holds the escrowed fares.
Contract == "contract"
Accounts == Identities \cup {Contract}

Loc(lat, lng) == [latitude |-> lat, longitude |-> lng]
DriverLocations == {Loc(5, 0), Loc(10, 0)}
PickupLocations == {Loc(0, 0)}
DestinationLocations == {Loc(7, 7)}
Names == {"name"}
CarModels == {"car"}
LicensePlates == {"plate"}
Timestamps == {1}
Values == {0, 1000}
NewFees == {0, 255, 1000, 1001}

DriverIds == 0 .. MaxRecords
RideIds == 0 .. MaxRecords

\* --------------------------------------------------------------- constants
DefaultRating == 4500
InitialFeePercent == 250
MaxFeePercent == 1000
BasisPoints == 10000
\* type(uint256).max, the "infinite" distance; every distance of the model is
\* far below it (TLC's integers end at 2^31 - 1).
Uint256Max == 2147483647

ZeroLocation == Loc(0, 0)
EmptyDriver ==
    [id |-> 0, driverAddress |-> NoAddress, name |-> "", rating |-> 0,
     carModel |-> "", licensePlate |-> "", location |-> ZeroLocation,
     isAvailable |-> FALSE]
EmptyRide ==
    [id |-> 0, passenger |-> NoAddress, pickupLocation |-> ZeroLocation,
     destinationLocation |-> ZeroLocation, fare |-> 0, timestamp |-> 0,
     status |-> "Requested", assignedDriverId |-> 0]

VARIABLES
    owner, rideCount, driverCount, platformFeePercent,
    rideRequests, drivers, passengerRides, driverRides,
    balance

vars == <<owner, rideCount, driverCount, platformFeePercent,
          rideRequests, drivers, passengerRides, driverRides, balance>>

\* -------------------------------------------------------------- wallet app
\* The browser side of the repository: the wallet-provider store
\* (src/src/types/eip6963.ts lines 36-59) with its hook
\* (src/unnamed/part_000), the wallet session (WalletProvider.tsx lines
\* 1-61), the routes (src/vite.config.ts lines 29-51) and the connect handler
\* of the Authentication page (src/unnamed/part_002).
Null == "null"
Uuids == {"uuid-1", "uuid-2"}
WalletNames == {"MetaMask", "Rabby"}

\* An EIP6963ProviderDetail, by its info.uuid and info.name, and the null of
\* that type.
ProviderDetails == [uuid : Uuids, name : WalletNames]
NullWallet == [uuid |-> Null, name |-> Null]

\* The components that call useSyncProviders, each with its own callback.
Callbacks == {"Authentication", "App"}

\* What eth_requestAccounts resolves to.
AccountLists == {<<>>, <<"">>, <<"0xA">>, <<"0xB", "0xA">>}
AccountValues == {Null, "", "0xA"}
Urls == {"/", "/home", "/settings"}

VARIABLES
    providers,       \* the module-level array of the store
    announced,       \* the uuids announced so far, in the order of their first
                     \* announcement
    listeners,       \* the callbacks whose onAnnouncement listener is on the
                     \* window, in the order they were added
    callbackCalls,   \* how often each callback has been called
    userAccount, selectedWallet,   \* the state of WalletProvider
    pending,         \* per wallet, the eth_requestAccounts request in flight:
                     \* "none", "live" (its Authentication page is mounted)
                     \* or "stale" (that page has been unmounted since)
    errorMessage,    \* the state of the Authentication page
    path             \* the location the router shows

storeVars == <<providers, announced, listeners, callbackCalls>>
sessionVars == <<userAccount, selectedWallet, pending, errorMessage, path>>
appVars == <<providers, announced, listeners, callbackCalls,
             userAccount, selectedWallet, pending, errorMessage, path>>

AppInit ==
    /\ providers = <<>>
    /\ announced = <<>>
    /\ listeners = <<>>
    /\ callbackCalls = [c \in Callbacks |-> 0]
    /\ userAccount = Null
    /\ selectedWallet = NullWallet
    /\ pending = [u \in Uuids |-> "none"]
    /\ errorMessage = ""
    /\ path = "/"

\* ------------------------------------------------------------------ calls
Event(name, args) == [name |-> name, args |-> args]

\* What a call leaves in the log: a call that reverts leaves nothing.
Emitted(result, events) == IF result = "Ok" THEN events ELSE <<>>

CanTransferUnchecked(bal, amount, accepts) == bal[Contract] >= amount

\* address.transfer(amount): reverts when the contract lacks the funds or the
\* recipient refuses the payment.
CanTransfer(bal, amount, accepts) == accepts /\ bal[Contract] >= amount

Transfer(bal, to, amount) ==
    [a \in Accounts |->
        IF a = Contract /\ a = to THEN bal[a]
        ELSE IF a = Contract THEN bal[a] - amount
        ELSE IF a = to THEN bal[a] + amount
        ELSE bal[a]]

\* ------------------------------------------------------------- constructor
Init ==
    /\ owner = Owner
    /\ platformFeePercent = InitialFeePercent
    /\ rideCount = 0
    /\ driverCount = 0
    /\ rideRequests = [r \in RideIds |-> EmptyRide]
    /\ drivers = [d \in DriverIds |-> EmptyDriver]
    /\ passengerRides = [a \in Identities |-> <<>>]
    /\ driverRides = [a \in Identities |-> <<>>]
    /\ balance = [a \in Accounts |-> IF a = Contract THEN 0 ELSE InitialFunds]
    /\ AppInit

\* ----------------------------------------------------------- DriverRegistry
RegisterDriverResult(sender) == "Ok"

\* driverCount++ : the id of the record that a registration writes.
NewDriverIdOffByOne == driverCount

NewDriverId == driverCount + 1

RegisterDriverEvents(sender, name) ==
    <<Event("DriverRegistered", <<NewDriverId, sender, name>>)>>

RegisterDriver(sender, name, carModel, licensePlate, location) ==
    /\ RegisterDriverResult(sender) = "Ok"
    /\ driverCount + rideCount < MaxRecords
    /\ driverCount' = driverCount + 1
    /\ drivers' = [drivers EXCEPT ![NewDriverId] =
          [id |-> NewDriverId, driverAddress |-> sender, name |-> name,
           rating |-> DefaultRating, carModel |-> carModel,
           licensePlate |-> licensePlate, location |-> location,
           isAvailable |-> TRUE]]
    /\ UNCHANGED <<owner, rideCount, platformFeePercent, rideRequests,
                   passengerRides, driverRides, balance>>

OnlyDriverAnySender(sender, driverId) == TRUE

OnlyDriver(sender, driverId) == drivers[driverId].driverAddress = sender

UpdateDriverLocationResult(sender, driverId) ==
    IF ~OnlyDriver(sender, driverId) THEN "Unauthorized" ELSE "Ok"

UpdateDriverLocationEvents(driverId, location) ==
    <<Event("DriverLocationUpdated",
            <<driverId, location.latitude, location.longitude>>)>>

UpdateDriverLocation(sender, driverId, location) ==
    /\ UpdateDriverLocationResult(sender, driverId) = "Ok"
    /\ drivers' = [drivers EXCEPT ![driverId].location = location]
    /\ UNCHANGED <<owner, rideCount, driverCount, platformFeePercent,
                   rideRequests, passengerRides, driverRides, balance>>

SetDriverAvailabilityResult(sender, driverId) ==
    IF ~OnlyDriver(sender, driverId) THEN "Unauthorized" ELSE "Ok"

SetDriverAvailabilityEvents(driverId, isAvailable) == <<>>

SetDriverAvailability(sender, driverId, isAvailable) ==
    /\ SetDriverAvailabilityResult(sender, driverId) = "Ok"
    /\ drivers' = [drivers EXCEPT ![driverId].isAvailable = isAvailable]
    /\ UNCHANGED <<owner, rideCount, driverCount, platformFeePercent,
                   rideRequests, passengerRides, driverRides, balance>>

\* --------------------------------------------------------------- RideLedger
RequestRideResultZeroFare(sender, value) ==
    IF ~(value >= 0) THEN "InvalidAmount" ELSE "Ok"

RequestRideResult(sender, value) ==
    IF ~(value > 0) THEN "InvalidAmount" ELSE "Ok"

\* rideCount++ : the id of the record that a request writes.
NewRideId == rideCount + 1

RequestRideEvents(sender, pickup) ==
    <<Event("RideRequested",
            <<NewRideId, sender, pickup.latitude, pickup.longitude>>)>>

\* msg.value leaves the sender's account with the call, so the sender holds it.
RequestRidePushesOldCount(sender, value, pickup, destination, timestamp) ==
    /\ balance[sender] >= value
    /\ RequestRideResult(sender, value) = "Ok"
    /\ driverCount + rideCount < MaxRecords
    /\ rideCount' = rideCount + 1
    /\ rideRequests' = [rideRequests EXCEPT ![NewRideId] =
          [id |-> NewRideId, passenger |-> sender,
           pickupLocation |-> pickup, destinationLocation |-> destination,
           fare |-> value, timestamp |-> timestamp,
           status |-> "Requested", assignedDriverId |-> 0]]
    /\ passengerRides' =
          [passengerRides EXCEPT ![sender] = Append(@, rideCount)]
    /\ balance' = [balance EXCEPT ![sender] = @ - value,
                                  ![Contract] = @ + value]
    /\ UNCHANGED <<owner, driverCount, platformFeePercent, drivers,
                   driverRides>>

RequestRide(sender, value, pickup, destination, timestamp) ==
    /\ balance[sender] >= value
    /\ RequestRideResult(sender, value) = "Ok"
    /\ driverCount + rideCount < MaxRecords
    /\ rideCount' = rideCount + 1
    /\ rideRequests' = [rideRequests EXCEPT ![NewRideId] =
          [id |-> NewRideId, passenger |-> sender,
           pickupLocation |-> pickup, destinationLocation |-> destination,
           fare |-> value, timestamp |-> timestamp,
           status |-> "Requested", assignedDriverId |-> 0]]
    /\ passengerRides' =
          [passengerRides EXCEPT ![sender] = Append(@, NewRideId)]
    /\ balance' = [balance EXCEPT ![sender] = @ - value,
                                  ![Contract] = @ + value]
    /\ UNCHANGED <<owner, driverCount, platformFeePercent, drivers,
                   driverRides>>

\* ----------------------------------------------------------- LocationMath
Abs(x) == IF x < 0 THEN -x ELSE x

CalculateSquaredDistance(lat1, lng1, lat2, lng2) ==
    LET latDiff == lat1 - lat2
        lngDiff == lng1 - lng2
        latDiffAbs == Abs(latDiff)
        lngDiffAbs == Abs(lngDiff)
    IN  (latDiffAbs * latDiffAbs) + (lngDiffAbs * lngDiffAbs)

\* --------------------------------------------------------- MatchingEngine
DistanceToPickup(ride, driver) ==
    CalculateSquaredDistance(ride.pickupLocation.latitude,
                             ride.pickupLocation.longitude,
                             driver.location.latitude,
                             driver.location.longitude)

IsNearerOrEqual(distance, shortestDistance) == distance <= shortestDistance

\* The comparison that replaces the nearest driver seen so far.
IsNearer(distance, shortestDistance) == distance < shortestDistance

IsCandidateAnyDriver(driver) == TRUE

\* Whether the scan looks at a driver at all.
IsCandidate(driver) == driver.isAvailable

\* The loop of findNearestDriver from index i on, with the loop's two locals.
RECURSIVE NearestFrom(_, _, _, _)
NearestFrom(ride, i, nearestDriverId, shortestDistance) ==
    IF ~(i <= driverCount) THEN nearestDriverId
    ELSE IF IsCandidate(drivers[i])
            /\ IsNearer(DistanceToPickup(ride, drivers[i]), shortestDistance)
         THEN NearestFrom(ride, i + 1, i, DistanceToPickup(ride, drivers[i]))
         ELSE NearestFrom(ride, i + 1, nearestDriverId, shortestDistance)

FindNearestDriverResult(rideId) ==
    IF ~(rideRequests[rideId].id > 0) THEN "NotFound"
    ELSE IF rideRequests[rideId].status # "Requested" THEN "InvalidState"
    ELSE "Ok"

FindNearestDriverFromFirst(rideId) ==
    NearestFrom(rideRequests[rideId], 1, 1, Uint256Max)

FindNearestDriver(rideId) ==
    NearestFrom(rideRequests[rideId], 1, 0, Uint256Max)

MatchRideResultOnlyPassenger(sender, rideId) ==
    IF ~(rideRequests[rideId].id > 0) THEN "NotFound"
    ELSE IF rideRequests[rideId].status # "Requested" THEN "InvalidState"
    ELSE IF rideRequests[rideId].passenger # sender THEN "Unauthorized"
    ELSE IF ~(FindNearestDriver(rideId) > 0) THEN "NoAvailableDriver"
    ELSE "Ok"

MatchRideResult(sender, rideId) ==
    IF ~(rideRequests[rideId].id > 0) THEN "NotFound"
    ELSE IF rideRequests[rideId].status # "Requested" THEN "InvalidState"
    ELSE IF ~(FindNearestDriver(rideId) > 0) THEN "NoAvailableDriver"
    ELSE "Ok"

MatchRideEvents(rideId) ==
    <<Event("RideMatched",
            <<rideId, FindNearestDriver(rideId), rideRequests[rideId].fare>>)>>

MatchRideTakesDriver(sender, rideId) ==
    LET ride == rideRequests[rideId]
        driverId == FindNearestDriver(rideId)
    IN
    /\ MatchRideResult(sender, rideId) = "Ok"
    /\ rideRequests' = [rideRequests EXCEPT
                           ![rideId].assignedDriverId = driverId,
                           ![rideId].status = "Matched"]
    /\ driverRides' = [driverRides EXCEPT
                           ![drivers[driverId].driverAddress] = Append(@, rideId)]
    /\ drivers' = [drivers EXCEPT ![driverId].isAvailable = FALSE]
    /\ UNCHANGED <<owner, rideCount, driverCount, platformFeePercent,
                   passengerRides, balance>>

MatchRide(sender, rideId) ==
    LET ride == rideRequests[rideId]
        driverId == FindNearestDriver(rideId)
    IN
    /\ MatchRideResult(sender, rideId) = "Ok"
    /\ rideRequests' = [rideRequests EXCEPT
                           ![rideId].assignedDriverId = driverId,
                           ![rideId].status = "Matched"]
    /\ driverRides' = [driverRides EXCEPT
                           ![drivers[driverId].driverAddress] = Append(@, rideId)]
    /\ UNCHANGED <<owner, rideCount, driverCount, platformFeePercent,
                   drivers, passengerRides, balance>>

\* -------------------------------------------------------- PathCostEstimator
\* The distance between two registered drivers, the weight of an edge.
DriverDistance(a, b) ==
    CalculateSquaredDistance(drivers[a].location.latitude,
                             drivers[a].location.longitude,
                             drivers[b].location.latitude,
                             drivers[b].location.longitude)

\* driversToCheck: the budget, clamped to the number of registered drivers.
DriversToCheck(maxDriversToCheck) ==
    IF maxDriversToCheck > driverCount THEN driverCount ELSE maxDriversToCheck

\* The two memory arrays, of length driversToCheck + 1, after the loop that
\* sets distances[1..n]; slot 0 keeps the zero of a new array.
NewDistances(n) == [i \in 0 .. n |-> IF i >= 1 THEN Uint256Max ELSE 0]
NewVisited(n) == [i \in 0 .. n |-> FALSE]

\* An index into a memory array of length n + 1 is checked: outside 0..n the
\* call reverts with an array out-of-bounds panic.
InBounds(i, n) == i \in 0 .. n

RECURSIVE MinIndexFromStrict(_, _, _, _, _, _)
MinIndexFromStrict(distances, visited, n, i, minDistance, minIndex) ==
    IF ~(i <= n) THEN minIndex
    ELSE IF ~visited[i] /\ distances[i] < minDistance
         THEN MinIndexFromStrict(distances, visited, n, i + 1, distances[i], i)
         ELSE MinIndexFromStrict(distances, visited, n, i + 1,
                                 minDistance, minIndex)

\* The selection loop from index i on, with its two locals.
RECURSIVE MinIndexFrom(_, _, _, _, _, _)
MinIndexFrom(distances, visited, n, i, minDistance, minIndex) ==
    IF ~(i <= n) THEN minIndex
    ELSE IF ~visited[i] /\ distances[i] <= minDistance
         THEN MinIndexFrom(distances, visited, n, i + 1, distances[i], i)
         ELSE MinIndexFrom(distances, visited, n, i + 1, minDistance, minIndex)

MinIndex(distances, visited, n) ==
    MinIndexFrom(distances, visited, n, 1, Uint256Max, 0)

RECURSIVE RelaxFromEdgeOnly(_, _, _, _, _)
RelaxFromEdgeOnly(distances, visited, n, minIndex, i) ==
    IF ~(i <= n) THEN distances
    ELSE IF visited[i] \/ i = minIndex
         THEN RelaxFromEdgeOnly(distances, visited, n, minIndex, i + 1)
         ELSE IF distances[minIndex] # Uint256Max
                 /\ DriverDistance(minIndex, i) < distances[i]
              THEN RelaxFromEdgeOnly([distances EXCEPT ![i] =
                                         DriverDistance(minIndex, i)],
                                     visited, n, minIndex, i + 1)
              ELSE RelaxFromEdgeOnly(distances, visited, n, minIndex, i + 1)

RECURSIVE RelaxFromNoCompare(_, _, _, _, _)
RelaxFromNoCompare(distances, visited, n, minIndex, i) ==
    IF ~(i <= n) THEN distances
    ELSE IF visited[i] \/ i = minIndex
         THEN RelaxFromNoCompare(distances, visited, n, minIndex, i + 1)
         ELSE IF distances[minIndex] # Uint256Max
              THEN RelaxFromNoCompare(
                       [distances EXCEPT ![i] =
                           distances[minIndex] + DriverDistance(minIndex, i)],
                       visited, n, minIndex, i + 1)
              ELSE RelaxFromNoCompare(distances, visited, n, minIndex, i + 1)

RECURSIVE RelaxFromForwardOnly(_, _, _, _, _)
RelaxFromForwardOnly(distances, visited, n, minIndex, i) ==
    IF ~(i <= n) THEN distances
    ELSE IF visited[i] \/ i <= minIndex
         THEN RelaxFromForwardOnly(distances, visited, n, minIndex, i + 1)
         ELSE IF distances[minIndex] # Uint256Max
                 /\ distances[minIndex] + DriverDistance(minIndex, i)
                        < distances[i]
              THEN RelaxFromForwardOnly(
                       [distances EXCEPT ![i] =
                           distances[minIndex] + DriverDistance(minIndex, i)],
                       visited, n, minIndex, i + 1)
              ELSE RelaxFromForwardOnly(distances, visited, n, minIndex, i + 1)

\* The relaxation loop from index i on; visited already holds minIndex.
RECURSIVE RelaxFrom(_, _, _, _, _)
RelaxFrom(distances, visited, n, minIndex, i) ==
    IF ~(i <= n) THEN distances
    ELSE IF visited[i] \/ i = minIndex
         THEN RelaxFrom(distances, visited, n, minIndex, i + 1)
         ELSE IF distances[minIndex] # Uint256Max
                 /\ distances[minIndex] + DriverDistance(minIndex, i)
                        < distances[i]
              THEN RelaxFrom([distances EXCEPT ![i] =
                                 distances[minIndex] + DriverDistance(minIndex, i)],
                             visited, n, minIndex, i + 1)
              ELSE RelaxFrom(distances, visited, n, minIndex, i + 1)

\* The outer loop from round count on: the distances array when it ends.
RECURSIVE DijkstraFrom(_, _, _, _, _)
DijkstraFrom(distances, visited, n, dest, count) ==
    IF ~(count <= n) THEN distances
    ELSE LET minIndex == MinIndex(distances, visited, n) IN
         IF minIndex = 0 \/ minIndex = dest THEN distances
         ELSE LET marked == [visited EXCEPT ![minIndex] = TRUE] IN
              DijkstraFrom(RelaxFrom(distances, marked, n, minIndex, 1),
                           marked, n, dest, count + 1)

EstimateShortestPathCostResultNoEarlyReturn(source, dest, maxDriversToCheck) ==
    IF ~(source > 0 /\ source <= driverCount) THEN "InvalidDriver"
    ELSE IF ~(dest > 0 /\ dest <= driverCount) THEN "InvalidDriver"
    ELSE IF ~InBounds(source, DriversToCheck(maxDriversToCheck)) THEN "Panic"
    ELSE IF ~InBounds(dest, DriversToCheck(maxDriversToCheck)) THEN "Panic"
    ELSE "Ok"

\* The rounds of the outer loop from round count on: the arrays each round
\* selects from and the index it selects; the round that breaks is the last.
RECURSIVE RoundsFrom(_, _, _, _, _)
RoundsFrom(distances, visited, n, dest, count) ==
    IF ~(count <= n) THEN <<>>
    ELSE LET minIndex == MinIndex(distances, visited, n)
             round == [distances |-> distances, visited |-> visited,
                       minIndex |-> minIndex]
         IN  IF minIndex = 0 \/ minIndex = dest THEN <<round>>
             ELSE LET marked == [visited EXCEPT ![minIndex] = TRUE] IN
                  <<round>> \o
                  RoundsFrom(RelaxFrom(distances, marked, n, minIndex, 1),
                             marked, n, dest, count + 1)

\* The rounds of a call that gets past the early return and the first write.
EstimateRounds(source, dest, maxDriversToCheck) ==
    LET n == DriversToCheck(maxDriversToCheck)
        distances == [NewDistances(n) EXCEPT ![source] = 0]
    IN  RoundsFrom(distances, NewVisited(n), n, dest, 1)

\* How a call ends: the two requires, then the early return, then the write of
\* distances[_sourceDriverId] and the read of distances[_destDriverId], each
\* of which panics when the index is past the end of the array.
EstimateShortestPathCostResult(source, dest, maxDriversToCheck) ==
    IF ~(source > 0 /\ source <= driverCount) THEN "InvalidDriver"
    ELSE IF ~(dest > 0 /\ dest <= driverCount) THEN "InvalidDriver"
    ELSE IF source = dest THEN "Ok"
    ELSE IF ~InBounds(source, DriversToCheck(maxDriversToCheck)) THEN "Panic"
    ELSE IF ~InBounds(dest, DriversToCheck(maxDriversToCheck)) THEN "Panic"
    ELSE "Ok"

\* The value a call returns when it ends with "Ok".
EstimateShortestPathCost(source, dest, maxDriversToCheck) ==
    IF source = dest THEN 0
    ELSE LET n == DriversToCheck(maxDriversToCheck)
             distances == [NewDistances(n) EXCEPT ![source] = 0]
         IN  DijkstraFrom(distances, NewVisited(n), n, dest, 1)[dest]

\* ------------------------------------------------------------------ queries
GetDriverDetailsResult(driverId) ==
    IF ~(drivers[driverId].id > 0) THEN "NotFound" ELSE "Ok"

GetDriverDetails(driverId) == drivers[driverId]

GetRideDetailsResult(rideId) ==
    IF ~(rideRequests[rideId].id > 0) THEN "NotFound" ELSE "Ok"

GetRideDetails(rideId) == rideRequests[rideId]

\* ------------------------------------------------- lifecycle and settlement
IsAssignedDriverAnySender(sender, ride) ==
    drivers[ride.assignedDriverId].driverAddress # NoAddress

IsAssignedDriver(sender, ride) ==
    drivers[ride.assignedDriverId].driverAddress = sender

StartRideResult(sender, rideId) ==
    IF ~(rideRequests[rideId].id > 0) THEN "NotFound"
    ELSE IF rideRequests[rideId].status # "Matched" THEN "InvalidState"
    ELSE IF ~IsAssignedDriver(sender, rideRequests[rideId]) THEN "Unauthorized"
    ELSE "Ok"

StartRideEvents(rideId) == <<>>

StartRideAllOfDriver(sender, rideId) ==
    /\ StartRideResult(sender, rideId) = "Ok"
    /\ rideRequests' =
          [r \in RideIds |->
              IF /\ rideRequests[r].status = "Matched"
                 /\ rideRequests[r].assignedDriverId
                       = rideRequests[rideId].assignedDriverId
              THEN [rideRequests[r] EXCEPT !.status = "InProgress"]
              ELSE rideRequests[r]]
    /\ UNCHANGED <<owner, rideCount, driverCount, platformFeePercent,
                   drivers, passengerRides, driverRides, balance>>

StartRide(sender, rideId) ==
    /\ StartRideResult(sender, rideId) = "Ok"
    /\ rideRequests' = [rideRequests EXCEPT ![rideId].status = "InProgress"]
    /\ UNCHANGED <<owner, rideCount, driverCount, platformFeePercent,
                   drivers, passengerRides, driverRides, balance>>

PlatformFeeOfHundred(fare, feePercent) == (fare * feePercent) \div 100

PlatformFeeRoundedUp(fare, feePercent) ==
    (fare * feePercent + BasisPoints - 1) \div BasisPoints

PlatformFee(fare, feePercent) == (fare * feePercent) \div BasisPoints

DriverPaymentOwnShare(fare, feePercent) ==
    (fare * (BasisPoints - feePercent)) \div BasisPoints

DriverPayment(fare, feePercent) == fare - PlatformFee(fare, feePercent)

\* completeRide's two transfers, in the order of the code: the balances after
\* the driver's payment, then after the owner's fee.
AfterDriverPayment(ride) ==
    Transfer(balance, drivers[ride.assignedDriverId].driverAddress,
             DriverPayment(ride.fare, platformFeePercent))

AfterSettlementFeeKept(ride) == AfterDriverPayment(ride)

AfterSettlement(ride) ==
    Transfer(AfterDriverPayment(ride), owner,
             PlatformFee(ride.fare, platformFeePercent))

CompleteRideResult(sender, rideId, driverAccepts, ownerAccepts) ==
    LET ride == rideRequests[rideId] IN
    IF ~(ride.id > 0) THEN "NotFound"
    ELSE IF ride.status # "InProgress" THEN "InvalidState"
    ELSE IF ~IsAssignedDriver(sender, ride) THEN "Unauthorized"
    ELSE IF ~CanTransfer(balance, DriverPayment(ride.fare, platformFeePercent),
                         driverAccepts)
    THEN "TransferFailure"
    ELSE IF ~CanTransfer(AfterDriverPayment(ride),
                         PlatformFee(ride.fare, platformFeePercent), ownerAccepts)
    THEN "TransferFailure"
    ELSE "Ok"

CompleteRideEvents(rideId) ==
    <<Event("RideCompleted", <<rideId, rideRequests[rideId].fare>>)>>

CompleteRide(sender, rideId, driverAccepts, ownerAccepts) ==
    LET ride == rideRequests[rideId] IN
    /\ CompleteRideResult(sender, rideId, driverAccepts, ownerAccepts) = "Ok"
    /\ rideRequests' = [rideRequests EXCEPT ![rideId].status = "Completed"]
    /\ balance' = AfterSettlement(ride)
    /\ UNCHANGED <<owner, rideCount, driverCount, platformFeePercent,
                   drivers, passengerRides, driverRides>>

OnlyPassenger(sender, rideId) == rideRequests[rideId].passenger = sender

IsCancellableInProgress(status) ==
    status = "Requested" \/ status = "Matched" \/ status = "InProgress"

IsCancellable(status) == status = "Requested" \/ status = "Matched"

AfterRefundLessFee(ride) ==
    Transfer(balance, ride.passenger,
             DriverPayment(ride.fare, platformFeePercent))

\* cancelRide's transfer: the balances after the refund.
AfterRefund(ride) == Transfer(balance, ride.passenger, ride.fare)

CancelRideResult(sender, rideId, passengerAccepts) ==
    LET ride == rideRequests[rideId] IN
    IF ~OnlyPassenger(sender, rideId) THEN "Unauthorized"
    ELSE IF ~(ride.id > 0) THEN "NotFound"
    ELSE IF ~IsCancellable(ride.status) THEN "InvalidState"
    ELSE IF ~CanTransfer(balance, ride.fare, passengerAccepts)
    THEN "TransferFailure"
    ELSE "Ok"

CancelRideEventsNone(rideId) == <<>>

CancelRideEvents(rideId) == <<Event("RideCancelled", <<rideId>>)>>

CancelRideClearsDriver(sender, rideId, passengerAccepts) ==
    LET ride == rideRequests[rideId] IN
    /\ CancelRideResult(sender, rideId, passengerAccepts) = "Ok"
    /\ rideRequests' = [rideRequests EXCEPT ![rideId].status = "Cancelled",
                                            ![rideId].assignedDriverId = 0]
    /\ balance' = AfterRefund(ride)
    /\ UNCHANGED <<owner, rideCount, driverCount, platformFeePercent,
                   drivers, passengerRides, driverRides>>

CancelRide(sender, rideId, passengerAccepts) ==
    LET ride == rideRequests[rideId] IN
    /\ CancelRideResult(sender, rideId, passengerAccepts) = "Ok"
    /\ rideRequests' = [rideRequests EXCEPT ![rideId].status = "Cancelled"]
    /\ balance' = AfterRefund(ride)
    /\ UNCHANGED <<owner, rideCount, driverCount, platformFeePercent,
                   drivers, passengerRides, driverRides>>

OnlyOwnerAnySender(sender) == TRUE

OnlyOwner(sender) == sender = owner

UpdatePlatformFeeResultNoCeiling(sender, newFeePercent) ==
    IF ~OnlyOwner(sender) THEN "Unauthorized" ELSE "Ok"

UpdatePlatformFeeResult(sender, newFeePercent) ==
    IF ~OnlyOwner(sender) THEN "Unauthorized"
    ELSE IF ~(newFeePercent <= MaxFeePercent) THEN "InvalidAmount"
    ELSE "Ok"

UpdatePlatformFeeEvents(newFeePercent) == <<>>

UpdatePlatformFee(sender, newFeePercent) ==
    /\ UpdatePlatformFeeResult(sender, newFeePercent) = "Ok"
    /\ platformFeePercent' = newFeePercent
    /\ UNCHANGED <<owner, rideCount, driverCount, rideRequests, drivers,
                   passengerRides, driverRides, balance>>

\* ------------------------------------------------------------ specification
Next ==
    \/ /\ \E sender \in Registrants, n \in Names, c \in CarModels,
             p \in LicensePlates, l \in DriverLocations :
             RegisterDriver(sender, n, c, p, l)
       /\ UNCHANGED appVars
    \/ /\ \E sender \in Identities, d \in DriverIds, l \in DriverLocations :
             UpdateDriverLocation(sender, d, l)
       /\ UNCHANGED appVars
    \/ /\ \E sender \in Identities, d \in DriverIds, a \in BOOLEAN :
             SetDriverAvailability(sender, d, a)
       /\ UNCHANGED appVars
    \/ /\ \E sender \in Requesters, v \in Values, p \in PickupLocations,
             q \in DestinationLocations, t \in Timestamps :
             RequestRide(sender, v, p, q, t)
       /\ UNCHANGED appVars
    \/ /\ \E sender \in Identities, r \in RideIds : MatchRide(sender, r)
       /\ UNCHANGED appVars
    \/ /\ \E sender \in Identities, r \in RideIds : StartRide(sender, r)
       /\ UNCHANGED appVars
    \/ /\ \E sender \in Identities, r \in RideIds, a \in BOOLEAN,
             b \in BOOLEAN : CompleteRide(sender, r, a, b)
       /\ UNCHANGED appVars
    \/ /\ \E sender \in Identities, r \in RideIds, a \in BOOLEAN :
             CancelRide(sender, r, a)
       /\ UNCHANGED appVars
    \/ /\ \E sender \in Identities, f \in NewFees :
             UpdatePlatformFee(sender, f)
       /\ UNCHANGED appVars

Spec == Init /\ [][Next]_vars

\* The registry alone, for the path-cost query: drivers registered and moved
\* over locations among which a detour can be shorter than the direct edge.
PathLocations == {Loc(0, 0), Loc(1, 0), Loc(2, 0), Loc(0, 2), Loc(-3, 0)}
PathBudgets == 0 .. MaxRecords + 1
PathIds == 0 .. MaxRecords + 1

PathNext ==
    \/ /\ \E sender \in Registrants, n \in Names, c \in CarModels,
             p \in LicensePlates, l \in PathLocations :
             RegisterDriver(sender, n, c, p, l)
       /\ UNCHANGED appVars
    \/ /\ \E sender \in Identities, d \in DriverIds, l \in PathLocations :
             UpdateDriverLocation(sender, d, l)
       /\ UNCHANGED appVars

PathSpec == Init /\ [][PathNext]_vars

\* ------------------------------------------------------- wallet-provider store
\* providers.map((p) => p.info.uuid)
KnownUuids(list) == {list[i].uuid : i \in 1 .. Len(list)}

RECURSIVE DispatchAnnouncementNoCheck(_, _, _, _, _)
DispatchAnnouncementNoCheck(added, i, list, calls, detail) ==
    IF i > Len(added) THEN [providers |-> list, callbackCalls |-> calls]
    ELSE DispatchAnnouncementNoCheck(added, i + 1, Append(list, detail),
                                     [calls EXCEPT ![added[i]] = @ + 1],
                                     detail)

\* One announceProvider event: the window calls the onAnnouncement listeners
\* in the order they were added, from listener i on; each reads the array as
\* the listeners before it left it.
RECURSIVE DispatchAnnouncement(_, _, _, _, _)
DispatchAnnouncement(added, i, list, calls, detail) ==
    IF i > Len(added) THEN [providers |-> list, callbackCalls |-> calls]
    ELSE IF detail.uuid \in KnownUuids(list)
         THEN DispatchAnnouncement(added, i + 1, list, calls, detail)
         ELSE DispatchAnnouncement(added, i + 1, Append(list, detail),
                                   [calls EXCEPT ![added[i]] = @ + 1], detail)

\* A wallet announces itself, when it loads or in answer to the
\* requestProvider event that subscribe dispatches.
Announce(detail) ==
    LET after == DispatchAnnouncement(listeners, 1, providers, callbackCalls,
                                      detail)
    IN  /\ providers' = after.providers
        /\ callbackCalls' = after.callbackCalls
        /\ announced' =
              IF \E i \in 1 .. Len(announced) : announced[i] = detail.uuid
              THEN announced
              ELSE Append(announced, detail.uuid)
        /\ UNCHANGED <<listeners, userAccount, selectedWallet, pending,
                       errorMessage, path>>

\* store.subscribe, called by useSyncExternalStore when a component mounts.
Subscribe(callback) ==
    /\ \A i \in 1 .. Len(listeners) : listeners[i] # callback
    /\ listeners' = Append(listeners, callback)
    /\ UNCHANGED <<providers, announced, callbackCalls, userAccount,
                   selectedWallet, pending, errorMessage, path>>

\* The function subscribe returned, called when the component unmounts.
Unsubscribe(callback) ==
    /\ \E i \in 1 .. Len(listeners) : listeners[i] = callback
    /\ listeners' = SelectSeq(listeners, LAMBDA c : c # callback)
    /\ UNCHANGED <<providers, announced, callbackCalls, userAccount,
                   selectedWallet, pending, errorMessage, path>>

\* ------------------------------------------------------------ wallet session
\* !!value of a string or null.
Truthy(value) == value # Null /\ value # ""

IsAuthenticated == Truthy(userAccount)

\* What the routes of AppRoutes give for a location: a page, or a Navigate
\* with replace to another location.
RouteElement(authenticated, url) ==
    IF authenticated
    THEN IF url = "/home" THEN [kind |-> "Home", to |-> url]
         ELSE [kind |-> "Navigate", to |-> "/home"]
    ELSE IF url = "/" THEN [kind |-> "Authentication", to |-> url]
         ELSE [kind |-> "Navigate", to |-> "/"]

\* The location after the router has followed a Navigate.
Settled(authenticated, url) ==
    LET element == RouteElement(authenticated, url)
    IN  IF element.kind = "Navigate" THEN element.to ELSE url

RenderedPage == RouteElement(IsAuthenticated, path).kind

\* setUserAccount and the render that follows: the routes are taken from the
\* new isAuthenticated; when they replace the Authentication page by Home the
\* page is unmounted, its state is gone and its requests in flight belong to
\* no mounted page.
Render(account, requests, message) ==
    /\ userAccount' = account
    /\ path' = Settled(Truthy(account), path)
    /\ pending' =
          IF Truthy(account)
          THEN [u \in Uuids |->
                   IF requests[u] = "live" THEN "stale" ELSE requests[u]]
          ELSE requests
    /\ errorMessage' = IF Truthy(account) THEN "" ELSE message

\* handleConnect up to its await: a click on the button of a listed wallet
\* sends eth_requestAccounts; a wallet holds one such request at a time.
HandleConnect(detail) ==
    /\ RenderedPage = "Authentication"
    /\ \E i \in 1 .. Len(providers) : providers[i] = detail
    /\ pending[detail.uuid] = "none"
    /\ pending' = [pending EXCEPT ![detail.uuid] = "live"]
    /\ UNCHANGED <<providers, announced, listeners, callbackCalls,
                   userAccount, selectedWallet, errorMessage, path>>

\* handleConnect after its await, the request resolved: it sets the page's
\* own selectedWallet (never read) and clears the page's error, no-ops when
\* the page is unmounted, and calls onAuthenticated, that is setUserAccount
\* of WalletProvider, with a truthy first account.
ConnectResolved(uuid, accounts) ==
    LET account == IF Len(accounts) = 0 THEN Null ELSE accounts[1]
        requests == [pending EXCEPT ![uuid] = "none"]
        message == IF pending[uuid] = "live" THEN "" ELSE errorMessage
    IN  /\ pending[uuid] # "none"
        /\ IF Truthy(account)
           THEN Render(account, requests, message)
           ELSE Render(userAccount, requests, message)
        /\ UNCHANGED <<providers, announced, listeners, callbackCalls,
                       selectedWallet>>

\* handleConnect after its await, the request rejected: the catch block sets
\* the page's error.
ConnectRejected(uuid) ==
    /\ pending[uuid] # "none"
    /\ pending' = [pending EXCEPT ![uuid] = "none"]
    /\ errorMessage' = IF pending[uuid] = "live" THEN "Code" ELSE errorMessage
    /\ UNCHANGED <<providers, announced, listeners, callbackCalls,
                   userAccount, selectedWallet, path>>

\* A click on the error box.
ClearError ==
    /\ RenderedPage = "Authentication"
    /\ errorMessage # ""
    /\ errorMessage' = ""
    /\ UNCHANGED <<providers, announced, listeners, callbackCalls,
                   userAccount, selectedWallet, pending, path>>

LogoutWalletOnly ==
    /\ RenderedPage = "Home"
    /\ selectedWallet' = NullWallet
    /\ UNCHANGED <<providers, announced, listeners, callbackCalls,
                   userAccount, pending, errorMessage, path>>

\* logout, from the button Home shows while userAccount is truthy.
Logout ==
    /\ RenderedPage = "Home"
    /\ Render(Null, pending, errorMessage)
    /\ selectedWallet' = NullWallet
    /\ UNCHANGED <<providers, announced, listeners, callbackCalls>>

\* setUserAccount and setSelectedWallet as the context gives them to any
\* component under WalletProvider.
SetUserAccount(account) ==
    /\ Render(account, pending, errorMessage)
    /\ UNCHANGED <<providers, announced, listeners, callbackCalls,
                   selectedWallet>>

SetSelectedWallet(wallet) ==
    /\ selectedWallet' = wallet
    /\ UNCHANGED <<providers, announced, listeners, callbackCalls,
                   userAccount, pending, errorMessage, path>>

\* The user opens a location.
OpenLocation(url) ==
    /\ path' = Settled(IsAuthenticated, url)
    /\ UNCHANGED <<providers, announced, listeners, callbackCalls,
                   userAccount, selectedWallet, pending, errorMessage>>

AppNext ==
    \/ /\ \E detail \in ProviderDetails : Announce(detail)
       /\ UNCHANGED vars
    \/ /\ \E callback \in Callbacks : Subscribe(callback)
       /\ UNCHANGED vars
    \/ /\ \E callback \in Callbacks : Unsubscribe(callback)
       /\ UNCHANGED vars
    \/ /\ \E detail \in ProviderDetails : HandleConnect(detail)
       /\ UNCHANGED vars
    \/ /\ \E uuid \in Uuids, accounts \in AccountLists :
             ConnectResolved(uuid, accounts)
       /\ UNCHANGED vars
    \/ /\ \E uuid \in Uuids : ConnectRejected(uuid)
       /\ UNCHANGED vars
    \/ /\ ClearError
       /\ UNCHANGED vars
    \/ /\ Logout
       /\ UNCHANGED vars
    \/ /\ \E account \in AccountValues : SetUserAccount(account)
       /\ UNCHANGED vars
    \/ /\ \E wallet \in ProviderDetails \cup {NullWallet} :
             SetSelectedWallet(wallet)
       /\ UNCHANGED vars
    \/ /\ \E url \in Urls : OpenLocation(url)
       /\ UNCHANGED vars

AppSpec == Init /\ [][AppNext]_appVars

\* ================================================================== claims
Exists(r) == rideRequests[r].id > 0
StatusOf(r) == rideRequests[r].status
DriverOwnerOf(r) == drivers[rideRequests[r].assignedDriverId].driverAddress
Moves(r, from, to) ==
    /\ rideRequests[r].status = from
    /\ rideRequests'[r].status = to
OthersKeepBalance(accounts) ==
    \A a \in Accounts \ accounts : balance'[a] = balance[a]

\* C1 (refusals): a call on an existing ride whose status is not the source
\* state of the call's transition fails: matchRide, startRide and completeRide
\* with InvalidState for every caller, cancelRide with InvalidState for the
\* requester (and with Unauthorized for anyone else).
C1_WrongStateRefused ==
    \A r \in RideIds : Exists(r) =>
        \A sender \in Identities, a \in BOOLEAN, b \in BOOLEAN :
            /\ StatusOf(r) # "Requested"
                  => MatchRideResult(sender, r) = "InvalidState"
            /\ StatusOf(r) # "Matched"
                  => StartRideResult(sender, r) = "InvalidState"
            /\ StatusOf(r) # "InProgress"
                  => CompleteRideResult(sender, r, a, b) = "InvalidState"
            /\ StatusOf(r) \notin {"Requested", "Matched"}
                  => CancelRideResult(sender, r, a) =
                        IF sender = rideRequests[r].passenger
                        THEN "InvalidState" ELSE "Unauthorized"

\* C1 (steps): a step changes a ride's status only along
\* Requested->Matched as a matchRide of that ride, Matched->InProgress as a
\* startRide, InProgress->Completed as a completeRide, and
\* Requested->Cancelled or Matched->Cancelled as a cancelRide.
C1_StatusStep(r) ==
    StatusOf(r) # rideRequests'[r].status =>
        \/ /\ Moves(r, "Requested", "Matched")
           /\ \E sender \in Identities : MatchRide(sender, r)
        \/ /\ Moves(r, "Matched", "InProgress")
           /\ \E sender \in Identities : StartRide(sender, r)
        \/ /\ Moves(r, "InProgress", "Completed")
           /\ \E sender \in Identities, a \in BOOLEAN, b \in BOOLEAN :
                 CompleteRide(sender, r, a, b)
        \/ /\ Moves(r, "Requested", "Cancelled") \/ Moves(r, "Matched", "Cancelled")
           /\ \E sender \in Identities, a \in BOOLEAN : CancelRide(sender, r, a)

\* C1: in every reachable history a ride's status changes only along the five
\* legal transitions, each by its own operation; an attempt at any other
\* transition fails with InvalidState; so Completed and Cancelled are never
\* left and Cancelled is never entered from InProgress or Completed.
C1_Lifecycle ==
    /\ []C1_WrongStateRefused
    /\ [][\A r \in RideIds : C1_StatusStep(r)]_vars

\* One ride went all the way to Completed, another was cancelled after its match.
C1_Witness ==
    \E r1 \in RideIds, r2 \in RideIds :
        /\ StatusOf(r1) = "Completed"
        /\ StatusOf(r2) = "Cancelled"
        /\ rideRequests[r2].assignedDriverId # 0

\* C2: for every existing ride, assignedDriverId # 0 if and only if the status
\* is Matched, InProgress or Completed.
C2_AssignedIffActive ==
    \A r \in RideIds : Exists(r) =>
        (rideRequests[r].assignedDriverId # 0
            <=> StatusOf(r) \in {"Matched", "InProgress", "Completed"})

\* C3: a step that completes a ride takes exactly the fare out of the
\* contract and pays it to the platform owner and to the owner of the assigned
\* driver: what the two receive adds up to the fare, and nobody else's balance
\* changes.
C3_CompleteStep(r) ==
    Moves(r, "InProgress", "Completed") =>
        LET fare == rideRequests[r].fare
            driver == DriverOwnerOf(r)
            platformFee == balance'[owner] - balance[owner]
            driverPayment == balance'[driver] - balance[driver]
        IN  /\ fare > 0
            /\ platformFeePercent \in 0 .. MaxFeePercent
            /\ balance'[Contract] = balance[Contract] - fare
            /\ OthersKeepBalance({Contract, owner, driver})
            /\ platformFee >= 0
            /\ driverPayment >= 0
            /\ IF driver = owner THEN driverPayment = fare
               ELSE platformFee + driverPayment = fare

C3_MoneyConserved == [][\A r \in RideIds : C3_CompleteStep(r)]_vars

\* A ride completed at fee level 255, where the fee is rounded down: the
\* owner holds 25 more and the driver 975 more than at the start.
C3_Witness ==
    \E r \in RideIds :
        /\ StatusOf(r) = "Completed"
        /\ DriverOwnerOf(r) = "dave"
        /\ rideRequests[r].passenger = "alice"
        /\ platformFeePercent = 255
        /\ balance[owner] = InitialFunds + 25
        /\ balance["dave"] = InitialFunds + 975

\* C4 (second cancel): a cancel of a Cancelled ride fails, with InvalidState
\* when the requester calls it.
C4_SecondCancelRefused ==
    \A r \in RideIds : Exists(r) /\ StatusOf(r) = "Cancelled" =>
        \A a \in BOOLEAN :
            CancelRideResult(rideRequests[r].passenger, r, a) = "InvalidState"

\* C4 (step): a step that cancels a ride starts in Requested or Matched, is a
\* cancelRide by the requester, and moves exactly the fare from the contract
\* to the requester; no step is a cancelRide of a ride that is Cancelled.
C4_CancelStep(r) ==
    /\ rideRequests'[r].status = "Cancelled" /\ StatusOf(r) # "Cancelled" =>
          LET ride == rideRequests[r] IN
          /\ StatusOf(r) \in {"Requested", "Matched"}
          /\ \E a \in BOOLEAN : CancelRide(ride.passenger, r, a)
          /\ balance'[ride.passenger] = balance[ride.passenger] + ride.fare
          /\ balance'[Contract] = balance[Contract] - ride.fare
          /\ OthersKeepBalance({Contract, ride.passenger})
    /\ StatusOf(r) = "Cancelled" =>
          \A sender \in Identities, a \in BOOLEAN : ~CancelRide(sender, r, a)

\* C4: cancel by the requester on a Requested or Matched ride refunds exactly
\* the full fare to the requester and sets Cancelled; a second cancel fails
\* with InvalidState and refunds nothing, so a fare is refunded at most once.
C4_RefundOnce ==
    /\ []C4_SecondCancelRefused
    /\ [][\A r \in RideIds : C4_CancelStep(r)]_vars

\* A ride cancelled while the fee level is not 0, its requester refunded in
\* full while the contract still holds the fare of another ride.
C4_Witness ==
    \E r \in RideIds, q \in RideIds :
        /\ StatusOf(r) = "Cancelled"
        /\ rideRequests[r].passenger = "alice"
        /\ balance["alice"] = InitialFunds
        /\ Exists(q) /\ StatusOf(q) = "Matched"
        /\ balance[Contract] = rideRequests[q].fare
        /\ platformFeePercent # 0

\* C5: a step that matches a ride assigns a registered driver whose
\* isAvailable flag is true in the state the step is taken from.
C5_MatchStep(r) ==
    Moves(r, "Requested", "Matched") =>
        LET d == rideRequests'[r].assignedDriverId IN
        /\ d \in 1 .. driverCount
        /\ drivers[d].id = d
        /\ drivers[d].isAvailable

C5_MatchedDriverAvailable == [][\A r \in RideIds : C5_MatchStep(r)]_vars

\* A ride matched to driver 2 while driver 1 is not available.
C5_Witness ==
    \E r \in RideIds :
        /\ StatusOf(r) = "Matched"
        /\ rideRequests[r].assignedDriverId = 2
        /\ drivers[1].id = 1 /\ ~drivers[1].isAvailable

\* The squared planar distance of a location from a ride's pickup, written out
\* without the code's absolute values.
C6_Distance(r, d) ==
    LET dLat == drivers[d].location.latitude - rideRequests[r].pickupLocation.latitude
        dLng == drivers[d].location.longitude - rideRequests[r].pickupLocation.longitude
    IN  dLat * dLat + dLng * dLng

AvailableDrivers == {d \in 1 .. driverCount : drivers[d].isAvailable}

\* C6: for a ride in Requested with at least one available driver,
\* findNearestDriver returns an available driver at the minimal squared
\* distance from the pickup, and the lowest id among those at that distance;
\* with the pickup at (0,0) and the available drivers at (10,0) and (5,0) it
\* returns the driver at (5,0).
C6_NearestLowestId ==
    \A r \in RideIds :
        FindNearestDriverResult(r) = "Ok" /\ AvailableDrivers # {} =>
            LET n == FindNearestDriver(r) IN
            /\ n \in AvailableDrivers
            /\ \A e \in AvailableDrivers :
                  \/ C6_Distance(r, n) < C6_Distance(r, e)
                  \/ C6_Distance(r, n) = C6_Distance(r, e) /\ n <= e
            /\ ( /\ rideRequests[r].pickupLocation = Loc(0, 0)
                 /\ {drivers[d].location : d \in AvailableDrivers}
                       = {Loc(10, 0), Loc(5, 0)}
                 => drivers[n].location = Loc(5, 0) )

\* A Requested ride with two available drivers at the same distance from the
\* pickup: the scan keeps driver 1.
C6_Witness ==
    \E r \in RideIds :
        /\ FindNearestDriverResult(r) = "Ok"
        /\ AvailableDrivers = {1, 2}
        /\ C6_Distance(r, 1) = C6_Distance(r, 2)
        /\ FindNearestDriver(r) = 1

\* C7 (result): for a ride in Requested with no available driver (none
\* registered, or none with the flag set), findNearestDriver returns 0 and
\* matchRide fails with NoAvailableDriver for every caller.
C7_NoDriverRefused ==
    \A r \in RideIds :
        FindNearestDriverResult(r) = "Ok" /\ AvailableDrivers = {} =>
            /\ FindNearestDriver(r) = 0
            /\ \A sender \in Identities :
                  MatchRideResult(sender, r) = "NoAvailableDriver"

\* C7 (step): no step from such a state is a matchRide of that ride: whatever
\* step is taken, the ride stays Requested (or is cancelled by its requester)
\* with assignedDriverId 0, and no driver history changes.
C7_NoDriverStep(r) ==
    FindNearestDriverResult(r) = "Ok" /\ AvailableDrivers = {} =>
        /\ \A sender \in Identities : ~MatchRide(sender, r)
        /\ rideRequests'[r].assignedDriverId = 0
        /\ rideRequests'[r].status \in {"Requested", "Cancelled"}
        /\ driverRides' = driverRides

\* C7: when no registered driver is available, findNearestDriver returns 0 and
\* match fails with NoAvailableDriver, leaving the ride in Requested with
\* assignedDriverId 0 and no driver history changed.
C7_NoAvailableDriver ==
    /\ []C7_NoDriverRefused
    /\ [][\A r \in RideIds : C7_NoDriverStep(r)]_vars

\* A Requested ride while two drivers are registered and neither is available.
C7_Witness ==
    \E r \in RideIds :
        /\ FindNearestDriverResult(r) = "Ok"
        /\ driverCount = 2
        /\ AvailableDrivers = {}

\* C8 (ids): the records in use are those with ids 1..count, each holding its
\* own id; every other slot, slot 0 included, is the empty record with id 0;
\* registerDriver succeeds for every caller.
C8_IdsDense ==
    /\ \A d \in DriverIds :
          IF d \in 1 .. driverCount THEN drivers[d].id = d
          ELSE drivers[d] = EmptyDriver
    /\ \A r \in RideIds :
          IF r \in 1 .. rideCount THEN rideRequests[r].id = r
          ELSE rideRequests[r] = EmptyRide
    /\ \A sender \in Identities : RegisterDriverResult(sender) = "Ok"

\* C8 (steps): a step that creates a record gives it the id count + 1; no step
\* lowers a counter or changes the id of a record.
C8_IdStep ==
    /\ driverCount' \in {driverCount, driverCount + 1}
    /\ rideCount' \in {rideCount, rideCount + 1}
    /\ driverCount' = driverCount + 1 =>
          drivers[driverCount'].id = 0 /\ drivers'[driverCount'].id = driverCount'
    /\ rideCount' = rideCount + 1 =>
          rideRequests[rideCount'].id = 0
              /\ rideRequests'[rideCount'].id = rideCount'
    /\ \A d \in 1 .. driverCount : drivers'[d].id = d
    /\ \A r \in 1 .. rideCount : rideRequests'[r].id = r

\* C8: register always succeeds; driver ids are assigned 1, 2, 3, ... strictly
\* increasing with no id reused; ride ids likewise; no existing driver or ride
\* record has id 0.
C8_IdsNeverReused == []C8_IdsDense /\ [][C8_IdStep]_vars

\* Two drivers and a ride registered, by different callers.
C8_Witness ==
    /\ driverCount = 2
    /\ rideCount = 1
    /\ drivers[1].driverAddress # drivers[2].driverAddress

\* C9 (create): requestRide fails with InvalidAmount when the value sent is
\* <= 0 and succeeds otherwise; every existing ride has fare > 0.
C9_FarePositive ==
    /\ \A sender \in Identities, v \in Values :
          RequestRideResult(sender, v) = IF v <= 0 THEN "InvalidAmount" ELSE "Ok"
    /\ \A r \in RideIds : Exists(r) => rideRequests[r].fare > 0

\* C9 (steps): a step that creates a ride stores it Requested with
\* assignedDriverId 0 and the value sent as its fare; no step changes the fare
\* of an existing ride.
C9_FareStep(r) ==
    /\ ~Exists(r) /\ rideRequests'[r].id > 0 =>
          /\ rideRequests'[r].status = "Requested"
          /\ rideRequests'[r].assignedDriverId = 0
          /\ rideRequests'[r].fare = balance'[Contract] - balance[Contract]
    /\ Exists(r) => rideRequests'[r].fare = rideRequests[r].fare

\* C9: create fails with InvalidAmount when the fare is <= 0 and otherwise
\* stores a Requested ride with assignedDriverId 0; every existing ride has
\* fare > 0, and the fare never changes through match, start, complete, cancel.
C9_FareFixed ==
    /\ []C9_FarePositive
    /\ [][\A r \in RideIds : C9_FareStep(r)]_vars

\* A ride that went through match, start and complete and another that was
\* matched and cancelled, both with the fare they were created with.
C9_Witness ==
    \E r1 \in RideIds, r2 \in RideIds :
        /\ StatusOf(r1) = "Completed" /\ rideRequests[r1].fare = 1000
        /\ StatusOf(r2) = "Cancelled" /\ rideRequests[r2].fare = 1000
        /\ rideRequests[r2].assignedDriverId # 0
        /\ rideRequests[r1].passenger # rideRequests[r2].passenger

\* C10: a step moves a ride Matched->InProgress or InProgress->Completed only
\* as a call by the owner of the ride's assigned driver, and moves it to
\* Cancelled only as a call by the ride's requester: the senders whose call
\* the step can be are that one identity.
C10_CallerStep(r) ==
    /\ Moves(r, "Matched", "InProgress") =>
          {s \in Identities : StartRide(s, r)} = {DriverOwnerOf(r)}
    /\ Moves(r, "InProgress", "Completed") =>
          {s \in Identities : \E a \in BOOLEAN, b \in BOOLEAN :
                                 CompleteRide(s, r, a, b)} = {DriverOwnerOf(r)}
    /\ StatusOf(r) # "Cancelled" /\ rideRequests'[r].status = "Cancelled" =>
          {s \in Identities : \E a \in BOOLEAN : CancelRide(s, r, a)}
              = {rideRequests[r].passenger}

C10_OnlyEntitledCaller == [][\A r \in RideIds : C10_CallerStep(r)]_vars

\* A ride in progress whose requester, assigned driver's owner and platform
\* owner are three identities, next to a cancelled ride of another requester.
C10_Witness ==
    \E r1 \in RideIds, r2 \in RideIds :
        /\ StatusOf(r1) = "InProgress"
        /\ {rideRequests[r1].passenger, DriverOwnerOf(r1), owner} = Identities
        /\ StatusOf(r2) = "Cancelled"
        /\ rideRequests[r2].passenger # rideRequests[r1].passenger

\* C11 (result): when a recipient refuses its transfer, completeRide by the
\* assigned driver's owner on an InProgress ride and cancelRide by the
\* requester on a Requested or Matched ride fail with TransferFailure and
\* emit nothing.
C11_TransferFailureRefused ==
    \A r \in RideIds : Exists(r) =>
        /\ StatusOf(r) = "InProgress" =>
              \A a \in BOOLEAN, b \in BOOLEAN : ~(a /\ b) =>
                  LET result == CompleteRideResult(DriverOwnerOf(r), r, a, b) IN
                  /\ result = "TransferFailure"
                  /\ Emitted(result, CompleteRideEvents(r)) = <<>>
        /\ StatusOf(r) \in {"Requested", "Matched"} =>
              LET result == CancelRideResult(rideRequests[r].passenger, r, FALSE) IN
              /\ result = "TransferFailure"
              /\ Emitted(result, CancelRideEvents(r)) = <<>>

\* C11 (steps): a step that changes a ride is not a completeRide or a
\* cancelRide of it one of whose transfers was refused; the contract pays out
\* in a step exactly when the step completes or cancels a ride, and then the
\* whole fare has left the contract and has reached the driver's owner and
\* the platform owner, or the requester.
C11_AtomicStep ==
    LET settled == {r \in RideIds : Moves(r, "InProgress", "Completed")}
        refunded == {r \in RideIds : /\ StatusOf(r) # "Cancelled"
                                     /\ rideRequests'[r].status = "Cancelled"}
        gain(a) == balance'[a] - balance[a]
    IN  /\ \A r \in RideIds : rideRequests'[r] # rideRequests[r] =>
              \A sender \in Identities, a \in BOOLEAN :
                  /\ ~CompleteRide(sender, r, a, FALSE)
                  /\ ~CompleteRide(sender, r, FALSE, a)
                  /\ ~CancelRide(sender, r, FALSE)
        /\ balance'[Contract] < balance[Contract] <=> settled \cup refunded # {}
        /\ (\E a \in Identities : gain(a) > 0) <=> settled \cup refunded # {}
        /\ \A r \in settled :
              /\ gain(Contract) = - rideRequests[r].fare
              /\ IF DriverOwnerOf(r) = owner
                 THEN gain(owner) = rideRequests[r].fare
                 ELSE gain(DriverOwnerOf(r)) + gain(owner) = rideRequests[r].fare
        /\ \A r \in refunded :
              /\ gain(Contract) = - rideRequests[r].fare
              /\ gain(rideRequests[r].passenger) = rideRequests[r].fare

\* C11: a failed transfer in completeRide or cancelRide fails the whole call
\* with TransferFailure: status, balances and log stay as they were, and no
\* step shows one transfer, or the status change, without the rest.
C11_TransferAtomic ==
    /\ []C11_TransferFailureRefused
    /\ [][C11_AtomicStep]_vars

\* A ride in progress and a matched ride, both of a requester who is not the
\* driver's owner, with both fares in escrow: a refused payment fails the
\* completion of the one and a refused refund the cancellation of the other.
C11_Witness ==
    \E r1 \in RideIds, r2 \in RideIds :
        /\ StatusOf(r1) = "InProgress"
        /\ StatusOf(r2) = "Matched"
        /\ DriverOwnerOf(r1) # owner
        /\ balance[Contract] = rideRequests[r1].fare + rideRequests[r2].fare
        /\ CompleteRideResult(DriverOwnerOf(r1), r1, TRUE, FALSE)
              = "TransferFailure"
        /\ CompleteRideResult(DriverOwnerOf(r1), r1, FALSE, TRUE)
              = "TransferFailure"
        /\ CancelRideResult(rideRequests[r2].passenger, r2, FALSE)
              = "TransferFailure"

\* The failures that the claims name for a call that changes nothing.
C12_Failures ==
    {"NotFound", "Unauthorized", "InvalidState", "InvalidAmount",
     "NoAvailableDriver", "InvalidDriver"}

\* When each call has to fail, in the words of the failure kinds: the id is
\* absent, the caller is not the identity the call is reserved to, the ride
\* is not in the state the call starts from, the amount is out of range, no
\* driver is available.
C12_DriverCallFails(sender, d) ==
    drivers[d].id = 0 \/ drivers[d].driverAddress # sender
C12_RequestFails(value) == value <= 0
C12_MatchFails(r) ==
    ~Exists(r) \/ StatusOf(r) # "Requested" \/ AvailableDrivers = {}
C12_StartFails(sender, r) ==
    ~Exists(r) \/ StatusOf(r) # "Matched" \/ DriverOwnerOf(r) # sender
C12_CompleteFails(sender, r) ==
    ~Exists(r) \/ StatusOf(r) # "InProgress" \/ DriverOwnerOf(r) # sender
C12_CancelFails(sender, r) ==
    \/ ~Exists(r)
    \/ rideRequests[r].passenger # sender
    \/ StatusOf(r) \notin {"Requested", "Matched"}
C12_FeeFails(sender, fee) == sender # owner \/ fee > 1000

\* C12 (result): a call that has to fail ends with one of the six failure
\* kinds and leaves nothing in the log.
C12_FailedCallsRefused ==
    /\ \A sender \in Identities, d \in DriverIds :
          C12_DriverCallFails(sender, d) =>
              /\ UpdateDriverLocationResult(sender, d) \in C12_Failures
              /\ SetDriverAvailabilityResult(sender, d) \in C12_Failures
              /\ \A l \in DriverLocations :
                    Emitted(UpdateDriverLocationResult(sender, d),
                            UpdateDriverLocationEvents(d, l)) = <<>>
    /\ \A sender \in Identities, v \in Values :
          C12_RequestFails(v) =>
              /\ RequestRideResult(sender, v) \in C12_Failures
              /\ \A p \in PickupLocations :
                    Emitted(RequestRideResult(sender, v),
                            RequestRideEvents(sender, p)) = <<>>
    /\ \A sender \in Identities, r \in RideIds :
          /\ C12_MatchFails(r) =>
                /\ MatchRideResult(sender, r) \in C12_Failures
                /\ Emitted(MatchRideResult(sender, r), MatchRideEvents(r)) = <<>>
          /\ C12_StartFails(sender, r) =>
                StartRideResult(sender, r) \in C12_Failures
          /\ C12_CompleteFails(sender, r) =>
                \A a \in BOOLEAN, b \in BOOLEAN :
                    /\ CompleteRideResult(sender, r, a, b) \in C12_Failures
                    /\ Emitted(CompleteRideResult(sender, r, a, b),
                               CompleteRideEvents(r)) = <<>>
          /\ C12_CancelFails(sender, r) =>
                \A a \in BOOLEAN :
                    /\ CancelRideResult(sender, r, a) \in C12_Failures
                    /\ Emitted(CancelRideResult(sender, r, a),
                               CancelRideEvents(r)) = <<>>
    /\ \A sender \in Identities, f \in NewFees :
          C12_FeeFails(sender, f) =>
              UpdatePlatformFeeResult(sender, f) \in C12_Failures

\* C12 (steps): no step is a call that has to fail: a step that changes a
\* driver record, creates a ride, changes a ride record or changes the fee
\* level is not a failing call on that record, with that value.
C12_FailedStep ==
    /\ \A d \in DriverIds : drivers'[d] # drivers[d] =>
          \A sender \in Identities : C12_DriverCallFails(sender, d) =>
              /\ \A l \in DriverLocations : ~UpdateDriverLocation(sender, d, l)
              /\ \A a \in BOOLEAN : ~SetDriverAvailability(sender, d, a)
    /\ rideCount' # rideCount =>
          \A sender \in Identities, v \in Values : C12_RequestFails(v) =>
              \A p \in PickupLocations, q \in DestinationLocations,
                 t \in Timestamps : ~RequestRide(sender, v, p, q, t)
    /\ \A r \in RideIds : rideRequests'[r] # rideRequests[r] =>
          \A sender \in Identities :
              /\ C12_MatchFails(r) => ~MatchRide(sender, r)
              /\ C12_StartFails(sender, r) => ~StartRide(sender, r)
              /\ C12_CompleteFails(sender, r) =>
                    \A a \in BOOLEAN, b \in BOOLEAN :
                        ~CompleteRide(sender, r, a, b)
              /\ C12_CancelFails(sender, r) =>
                    \A a \in BOOLEAN : ~CancelRide(sender, r, a)
    /\ platformFeePercent' # platformFeePercent =>
          \A sender \in Identities, f \in NewFees :
              C12_FeeFails(sender, f) => ~UpdatePlatformFee(sender, f)

\* C12: an operation that fails with NotFound, Unauthorized, InvalidState,
\* InvalidAmount, NoAvailableDriver or InvalidDriver leaves the driver table,
\* the ride table, the two indexes, the counters, the fee level, the balances
\* and the log as they were.  (InvalidDriver is the failure of the path-cost
\* query, a view: no step is a call of it.)
C12_FailuresChangeNothing ==
    /\ []C12_FailedCallsRefused
    /\ [][C12_FailedStep]_vars

\* A completed ride next to a requested one while no driver is available and
\* the fee level has been changed: calls of every kind fail here.
C12_Witness ==
    \E r1 \in RideIds, r2 \in RideIds :
        /\ StatusOf(r1) = "Completed"
        /\ Exists(r2) /\ StatusOf(r2) = "Requested"
        /\ AvailableDrivers = {}
        /\ platformFeePercent # InitialFeePercent
        /\ MatchRideResult("alice", r1) = "InvalidState"
        /\ MatchRideResult("alice", r2) = "NoAvailableDriver"
        /\ StartRideResult("alice", 0) = "NotFound"
        /\ UpdateDriverLocationResult("alice", 1) = "Unauthorized"
        /\ RequestRideResult("alice", 0) = "InvalidAmount"
        /\ UpdatePlatformFeeResult(owner, 1001) = "InvalidAmount"

\* floor(fare * feeBasisPoints / 10000): the largest whole number of units
\* whose 10000-fold is not above fare * feeBasisPoints.
C13_Floor(fare, feeBasisPoints) ==
    CHOOSE f \in 0 .. fare :
        f * 10000 <= fare * feeBasisPoints /\ fare * feeBasisPoints < (f + 1) * 10000

\* C13 (step): a step that completes a ride pays the platform owner
\* floor(fare * fee / 10000) and the owner of the assigned driver the rest of
\* the fare, at the fee level of the state the step is taken from (one
\* identity in both roles receives both shares); the call emits the one
\* notification RideCompleted; with fare 1000 and fee level 250 the shares are
\* 25 and 975.
C13_SettlementStep(r) ==
    Moves(r, "InProgress", "Completed") =>
        LET fare == rideRequests[r].fare
            driver == DriverOwnerOf(r)
            platformFee == C13_Floor(fare, platformFeePercent)
            driverPayment == fare - platformFee
        IN  /\ IF driver = owner
               THEN balance'[owner] = balance[owner] + platformFee + driverPayment
               ELSE /\ balance'[owner] = balance[owner] + platformFee
                    /\ balance'[driver] = balance[driver] + driverPayment
            /\ platformFeePercent' = platformFeePercent
            /\ \A a \in BOOLEAN, b \in BOOLEAN :
                  CompleteRide(driver, r, a, b) =>
                      Emitted(CompleteRideResult(driver, r, a, b),
                              CompleteRideEvents(r))
                          = <<Event("RideCompleted", <<r, fare>>)>>
            /\ fare = 1000 /\ platformFeePercent = 250 =>
                  platformFee = 25 /\ driverPayment = 975

C13_FeeSplit == [][\A r \in RideIds : C13_SettlementStep(r)]_vars

\* The end-to-end scenario: one driver, one ride of fare 1000 requested,
\* matched, started and completed at fee level 250; the platform owner holds
\* 25 more, the driver's owner 975 more, the requester 1000 less.
C13_Witness ==
    /\ driverCount = 1
    /\ rideCount = 1
    /\ platformFeePercent = 250
    /\ rideRequests[1].fare = 1000
    /\ StatusOf(1) = "Completed"
    /\ DriverOwnerOf(1) # owner
    /\ balance[owner] = InitialFunds + 25
    /\ balance[DriverOwnerOf(1)] = InitialFunds + 975
    /\ balance[rideRequests[1].passenger] = InitialFunds - 1000
    /\ balance[Contract] = 0

\* C14 (result): the fee level is at most 1000; updatePlatformFee by the
\* platform owner fails with InvalidAmount for a new value above 1000 and
\* succeeds otherwise; by anyone else it fails.
C14_FeeCeiling ==
    /\ platformFeePercent <= 1000
    /\ \A f \in NewFees :
          /\ UpdatePlatformFeeResult(owner, f) =
                IF f > 1000 THEN "InvalidAmount" ELSE "Ok"
          /\ \A sender \in Identities \ {owner} :
                UpdatePlatformFeeResult(sender, f) # "Ok"

\* C14 (steps): a step that changes the fee level is an updatePlatformFee by
\* the platform owner, and by nobody else, with the new level, which is at
\* most 1000.
C14_FeeStep ==
    platformFeePercent' # platformFeePercent =>
        /\ platformFeePercent' <= 1000
        /\ {sender \in Identities :
               UpdatePlatformFee(sender, platformFeePercent')} = {owner}

\* C14: the fee level changes only by a call of the platform owner with a new
\* value <= 1000; a new value > 1000 fails with InvalidAmount; so from the
\* initial 250 the fee level is <= 1000 in every reachable state.
C14_FeeBounded == []C14_FeeCeiling /\ [][C14_FeeStep]_vars

\* The fee level raised to the ceiling itself, where the next higher value
\* is refused.
C14_Witness ==
    /\ platformFeePercent = 1000
    /\ UpdatePlatformFeeResult(owner, 1001) = "InvalidAmount"
    /\ UpdatePlatformFeeResult("dave", 0) = "Unauthorized"

\* The registered driver ids.
Registered == 1 .. driverCount

\* C15 (as stated): the path-cost query with source = destination returns 0
\* for every value of the shared id and every budget.
C15_SameIdZero ==
    \A id \in PathIds, k \in PathBudgets :
        /\ EstimateShortestPathCostResult(id, id, k) = "Ok"
        /\ EstimateShortestPathCost(id, id, k) = 0

\* C15 (amended): the path-cost query with source = destination returns 0 for
\* every registered shared id and every budget, also a budget below the id;
\* with a shared id that is not registered it fails with InvalidDriver.
C15_RegisteredSameIdZero ==
    \A id \in PathIds, k \in PathBudgets :
        IF id \in Registered
        THEN /\ EstimateShortestPathCostResult(id, id, k) = "Ok"
             /\ EstimateShortestPathCost(id, id, k) = 0
        ELSE EstimateShortestPathCostResult(id, id, k) = "InvalidDriver"

\* Two drivers at different places: the query from driver 2 to itself gives 0
\* with budget 0, and the query for the unregistered id 3 fails.
C15_Witness ==
    /\ driverCount = 2
    /\ drivers[1].location # drivers[2].location
    /\ EstimateShortestPathCostResult(2, 2, 0) = "Ok"
    /\ EstimateShortestPathCost(2, 2, 0) = 0
    /\ EstimateShortestPathCostResult(3, 3, 0) = "InvalidDriver"

\* C16: the path-cost query with budget 0 and two distinct registered ids
\* ends normally and returns the "infinite" sentinel.
C16_ZeroBudgetSentinel ==
    \A s \in Registered, d \in Registered :
        s # d =>
            /\ EstimateShortestPathCostResult(s, d, 0) = "Ok"
            /\ EstimateShortestPathCost(s, d, 0) = Uint256Max

\* C17: for distinct registered source and destination, when the source or
\* the destination is above the clamped budget (so that the destination is
\* not reached in the scanned subset), the path-cost query ends normally and
\* returns the "infinite" sentinel.
C17_UnreachedSentinel ==
    \A s \in Registered, d \in Registered, k \in PathBudgets :
        s # d /\ (s > DriversToCheck(k) \/ d > DriversToCheck(k)) =>
            /\ EstimateShortestPathCostResult(s, d, k) = "Ok"
            /\ EstimateShortestPathCost(s, d, k) = Uint256Max

\* C18: the path-cost query fails with InvalidDriver exactly when source and
\* destination differ and one of them is not a registered id; it never fails
\* for two registered ids.
C18_InvalidDriverExactly ==
    \A s \in PathIds, d \in PathIds, k \in PathBudgets :
        /\ EstimateShortestPathCostResult(s, d, k) = "InvalidDriver"
              <=> s # d /\ (s \notin Registered \/ d \notin Registered)
        /\ s \in Registered /\ d \in Registered =>
              EstimateShortestPathCostResult(s, d, k) = "Ok"

\* What a call appends to the log is n notifications when it succeeds and
\* none when it fails.
C19_Appends(result, events, n) ==
    Len(Emitted(result, events)) = IF result = "Ok" THEN n ELSE 0

C19_Names(events) == [i \in 1 .. Len(events) |-> events[i].name]

\* Every call of the nine mutating functions, with every input: the six that
\* are named after their notification append one, setDriverAvailability,
\* startRide and updatePlatformFee append nAvailability, nStart and nFee.
C19_LogLengths(nAvailability, nStart, nFee) ==
    /\ \A sender \in Identities, n \in Names :
          C19_Appends(RegisterDriverResult(sender),
                      RegisterDriverEvents(sender, n), 1)
    /\ \A sender \in Identities, d \in DriverIds :
          /\ \A l \in DriverLocations :
                C19_Appends(UpdateDriverLocationResult(sender, d),
                            UpdateDriverLocationEvents(d, l), 1)
          /\ \A a \in BOOLEAN :
                C19_Appends(SetDriverAvailabilityResult(sender, d),
                            SetDriverAvailabilityEvents(d, a), nAvailability)
    /\ \A sender \in Identities, v \in Values, p \in PickupLocations :
          C19_Appends(RequestRideResult(sender, v),
                      RequestRideEvents(sender, p), 1)
    /\ \A sender \in Identities, r \in RideIds :
          /\ C19_Appends(MatchRideResult(sender, r), MatchRideEvents(r), 1)
          /\ C19_Appends(StartRideResult(sender, r), StartRideEvents(r), nStart)
          /\ \A a \in BOOLEAN, b \in BOOLEAN :
                C19_Appends(CompleteRideResult(sender, r, a, b),
                            CompleteRideEvents(r), 1)
          /\ \A a \in BOOLEAN :
                C19_Appends(CancelRideResult(sender, r, a),
                            CancelRideEvents(r), 1)
    /\ \A sender \in Identities, f \in NewFees :
          C19_Appends(UpdatePlatformFeeResult(sender, f),
                      UpdatePlatformFeeEvents(f), nFee)

\* C19 (as stated): every successful register, updateLocation,
\* setAvailability, create, match, start, complete, cancel and
\* setFeeBasisPoints appends exactly one notification, and a failed operation
\* appends none.
C19_OneNotificationEach == C19_LogLengths(1, 1, 1)

\* C19 (amended): every successful register, updateLocation, create, match,
\* complete and cancel appends exactly one notification, the one named after
\* the operation; a successful setAvailability, start or setFeeBasisPoints
\* appends none; a failed operation appends none.
C19_OneNotificationOfSix ==
    /\ C19_LogLengths(0, 0, 0)
    /\ \A sender \in Identities :
          /\ C19_Names(RegisterDriverEvents(sender, "name"))
                = <<"DriverRegistered">>
          /\ C19_Names(RequestRideEvents(sender, ZeroLocation))
                = <<"RideRequested">>
    /\ \A d \in DriverIds :
          C19_Names(UpdateDriverLocationEvents(d, ZeroLocation))
              = <<"DriverLocationUpdated">>
    /\ \A r \in RideIds :
          /\ C19_Names(MatchRideEvents(r)) = <<"RideMatched">>
          /\ C19_Names(CompleteRideEvents(r)) = <<"RideCompleted">>
          /\ C19_Names(CancelRideEvents(r)) = <<"RideCancelled">>

\* A matched ride and a ride in progress next to an available driver: here a
\* call of each of the nine functions can succeed.
C19_Witness ==
    \E r1 \in RideIds, r2 \in RideIds :
        /\ StatusOf(r1) = "Matched"
        /\ StatusOf(r2) = "InProgress"
        /\ StartRideResult(DriverOwnerOf(r1), r1) = "Ok"
        /\ CancelRideResult(rideRequests[r1].passenger, r1, TRUE) = "Ok"
        /\ CompleteRideResult(DriverOwnerOf(r2), r2, TRUE, TRUE) = "Ok"
        /\ SetDriverAvailabilityResult(drivers[1].driverAddress, 1) = "Ok"
        /\ UpdatePlatformFeeResult(owner, 0) = "Ok"
        /\ Len(StartRideEvents(r1)) = 0
        /\ Len(CancelRideEvents(r1)) = 1

\* C20: a call given an id that does not exist fails with NotFound for every
\* caller: updateDriverLocation, setDriverAvailability and getDriverDetails
\* on an id no driver was registered with; cancelRide, startRide,
\* completeRide, matchRide and getRideDetails on an id no ride was created with.
C20_AbsentIdNotFound ==
    /\ \A d \in DriverIds : drivers[d].id = 0 =>
          /\ GetDriverDetailsResult(d) = "NotFound"
          /\ \A sender \in Identities :
                /\ UpdateDriverLocationResult(sender, d) = "NotFound"
                /\ SetDriverAvailabilityResult(sender, d) = "NotFound"
    /\ \A r \in RideIds : ~Exists(r) =>
          /\ GetRideDetailsResult(r) = "NotFound"
          /\ \A sender \in Identities, a \in BOOLEAN, b \in BOOLEAN :
                /\ CancelRideResult(sender, r, a) = "NotFound"
                /\ StartRideResult(sender, r) = "NotFound"
                /\ CompleteRideResult(sender, r, a, b) = "NotFound"
                /\ MatchRideResult(sender, r) = "NotFound"

\* C21: a restricted call on an existing record by an identity outside its
\* class fails with Unauthorized whatever the state of the record: startRide
\* and completeRide by anyone but the assigned driver's owner, cancelRide by
\* anyone but the requester, updateDriverLocation and setDriverAvailability
\* by anyone but the driver's owner, updatePlatformFee by anyone but the
\* platform owner.
C21_UnauthorizedWhateverState ==
    /\ \A r \in RideIds, sender \in Identities : Exists(r) =>
          /\ sender # DriverOwnerOf(r) =>
                /\ StartRideResult(sender, r) = "Unauthorized"
                /\ \A a \in BOOLEAN, b \in BOOLEAN :
                      CompleteRideResult(sender, r, a, b) = "Unauthorized"
          /\ sender # rideRequests[r].passenger =>
                \A a \in BOOLEAN : CancelRideResult(sender, r, a) = "Unauthorized"
    /\ \A d \in DriverIds, sender \in Identities :
          drivers[d].id > 0 /\ sender # drivers[d].driverAddress =>
              /\ UpdateDriverLocationResult(sender, d) = "Unauthorized"
              /\ SetDriverAvailabilityResult(sender, d) = "Unauthorized"
    /\ \A sender \in Identities, f \in NewFees :
          sender # owner => UpdatePlatformFeeResult(sender, f) = "Unauthorized"

\* The driver that the matching selects for a ride, in the words of the
\* search: an available driver at the least squared distance from the pickup,
\* the one of lowest id among those.
C22_Selected(r) ==
    CHOOSE n \in AvailableDrivers :
        \A e \in AvailableDrivers :
            \/ C6_Distance(r, n) < C6_Distance(r, e)
            \/ C6_Distance(r, n) = C6_Distance(r, e) /\ n <= e

\* C22 (result): matchRide of a Requested ride succeeds for every caller when
\* a driver is available, and emits RideMatched with the ride, the selected
\* driver and the ride's fare.
C22_AnyCallerMatches ==
    \A r \in RideIds :
        Exists(r) /\ StatusOf(r) = "Requested" /\ AvailableDrivers # {} =>
            \A sender \in Identities :
                /\ MatchRideResult(sender, r) = "Ok"
                /\ Emitted(MatchRideResult(sender, r), MatchRideEvents(r))
                      = <<Event("RideMatched",
                                <<r, C22_Selected(r), rideRequests[r].fare>>)>>

\* C22 (step): a step that matches a ride is the matchRide of every caller
\* alike; it assigns the selected driver, sets Matched and appends the ride id
\* to the history of that driver's owner, and to no other history.
C22_MatchStep(r) ==
    Moves(r, "Requested", "Matched") =>
        LET n == C22_Selected(r)
            driver == drivers[n].driverAddress
        IN  /\ \A sender \in Identities : MatchRide(sender, r)
            /\ rideRequests'[r] =
                  [rideRequests[r] EXCEPT !.assignedDriverId = n,
                                          !.status = "Matched"]
            /\ driverRides'[driver] = Append(driverRides[driver], r)
            /\ \A a \in Identities \ {driver} : driverRides'[a] = driverRides[a]

\* C22: matchRide of a Requested ride with an available driver succeeds for
\* any caller and in one step assigns the selected driver, sets Matched,
\* appends the ride id to the history of the driver's owner and emits
\* RideMatched with the ride's fare.
C22_MatchByAnyone ==
    /\ []C22_AnyCallerMatches
    /\ [][\A r \in RideIds : C22_MatchStep(r)]_vars

\* A matched ride in the history of its driver's owner, next to a Requested
\* ride that its requester, the driver's owner, the platform owner and an
\* unrelated identity can each match.
C22_Witness ==
    \E r1 \in RideIds, r2 \in RideIds :
        /\ StatusOf(r1) = "Matched"
        /\ driverRides[DriverOwnerOf(r1)] = <<r1>>
        /\ Exists(r2) /\ StatusOf(r2) = "Requested"
        /\ rideRequests[r2].passenger = "dave"
        /\ \A sender \in Identities : MatchRideResult(sender, r2) = "Ok"

\* C23 (a driver's record): a step that changes the record of a registered
\* driver changes its location only, as an updateDriverLocation by the stored
\* owner and by nobody else, or its isAvailable flag only, as a
\* setDriverAvailability by the stored owner and by nobody else; it changes
\* no ride and no balance.
C23_DriverStep(d) ==
    drivers[d].id > 0 /\ drivers'[d] # drivers[d] =>
        LET old == drivers[d]
            new == drivers'[d]
            others == Identities \ {old.driverAddress}
        IN  /\ new.id = old.id /\ new.driverAddress = old.driverAddress
            /\ new.name = old.name /\ new.rating = old.rating
            /\ new.carModel = old.carModel
            /\ new.licensePlate = old.licensePlate
            /\ \/ /\ new.isAvailable = old.isAvailable
                  /\ UpdateDriverLocation(old.driverAddress, d, new.location)
                  /\ \A sender \in others :
                        ~UpdateDriverLocation(sender, d, new.location)
               \/ /\ new.location = old.location
                  /\ SetDriverAvailability(old.driverAddress, d, new.isAvailable)
                  /\ \A sender \in others :
                        ~SetDriverAvailability(sender, d, new.isAvailable)
            /\ rideRequests' = rideRequests
            /\ balance' = balance

\* C23: after its registration a driver's record changes only by
\* updateDriverLocation (the location) or setDriverAvailability (the flag)
\* called by its stored owner; id, owner, name, rating, car and plate never
\* change; a step that creates or changes a ride changes no driver.
C23_DriverFrame ==
    [][ /\ \A d \in DriverIds : C23_DriverStep(d)
        /\ rideRequests' # rideRequests => drivers' = drivers ]_vars

\* A driver who went off duty, with the rating of its registration, whose
\* ride was completed.
C23_Witness ==
    \E d \in DriverIds, r \in RideIds :
        /\ drivers[d].id > 0
        /\ ~drivers[d].isAvailable
        /\ drivers[d].rating = DefaultRating
        /\ rideRequests[r].assignedDriverId = d
        /\ StatusOf(r) = "Completed"

\* C24: a step that matches a ride changes no driver record: the assigned
\* driver's isAvailable flag is true before and after it.
C24_MatchStep(r) ==
    Moves(r, "Requested", "Matched") =>
        LET d == rideRequests'[r].assignedDriverId IN
        /\ drivers' = drivers
        /\ drivers[d].isAvailable
        /\ drivers'[d].isAvailable

C24_MatchKeepsAvailable == [][\A r \in RideIds : C24_MatchStep(r)]_vars

\* One available driver assigned to two rides that are both Matched.
C24_Witness ==
    \E r1 \in RideIds, r2 \in RideIds, d \in DriverIds :
        /\ r1 # r2
        /\ StatusOf(r1) = "Matched" /\ StatusOf(r2) = "Matched"
        /\ rideRequests[r1].assignedDriverId = d
        /\ rideRequests[r2].assignedDriverId = d
        /\ drivers[d].id = d
        /\ drivers[d].isAvailable

\* C25: no driver is the assigned driver of two different rides that are both
\* active (Matched or InProgress).
C25_NoDoubleAssignment ==
    \A r1 \in RideIds, r2 \in RideIds :
        /\ r1 # r2
        /\ Exists(r1) /\ Exists(r2)
        /\ StatusOf(r1) \in {"Matched", "InProgress"}
        /\ StatusOf(r2) \in {"Matched", "InProgress"}
        => rideRequests[r1].assignedDriverId # rideRequests[r2].assignedDriverId

\* C26: the queries succeed for any caller when their ids are valid:
\* getDriverDetails of a registered driver, getRideDetails and
\* findNearestDriver of an existing ride, estimateShortestPathCost of two
\* registered drivers with any budget.  (A query is a view: it is no step of
\* the contract, and reading the fee level cannot fail.)
C26_QueriesSucceed ==
    /\ \A d \in DriverIds : drivers[d].id > 0 =>
          /\ GetDriverDetailsResult(d) = "Ok"
          /\ GetDriverDetails(d).id = d
    /\ \A r \in RideIds : Exists(r) =>
          /\ GetRideDetailsResult(r) = "Ok"
          /\ GetRideDetails(r).id = r
          /\ FindNearestDriverResult(r) = "Ok"
    /\ \A s \in Registered, d \in Registered, k \in PathBudgets :
          EstimateShortestPathCostResult(s, d, k) = "Ok"

\* The squared planar distance of two drivers, written out.
C27_Edge(a, b) ==
    LET dLat == drivers[a].location.latitude - drivers[b].location.latitude
        dLng == drivers[a].location.longitude - drivers[b].location.longitude
    IN  dLat * dLat + dLng * dLng

\* The costs of the paths from a driver to d that pass, in between, through
\* distinct drivers of the set unused.
RECURSIVE C27_Costs(_, _, _)
C27_Costs(from, d, unused) ==
    {C27_Edge(from, d)} \cup
    UNION {{C27_Edge(from, m) + c : c \in C27_Costs(m, d, unused \ {m})} :
              m \in unused}

\* The least cost of a path from s to d among the drivers 1..k.
C27_MinPath(k, s, d) ==
    LET costs == C27_Costs(s, d, (1 .. k) \ {s, d})
    IN  CHOOSE c \in costs : \A e \in costs : c <= e

\* C27: for distinct source and destination both within the first
\* k = min(budget, driverCount) ids, the path-cost query returns the least
\* sum of squared distances along a path from source to destination among
\* the drivers 1..k; a budget above driverCount gives what the budget
\* driverCount gives.
C27_ShortestPath ==
    \A s \in Registered, d \in Registered, budget \in PathBudgets :
        LET k == IF budget > driverCount THEN driverCount ELSE budget IN
        s # d /\ s <= k /\ d <= k =>
            /\ EstimateShortestPathCostResult(s, d, budget) = "Ok"
            /\ EstimateShortestPathCost(s, d, budget) = C27_MinPath(k, s, d)
            /\ budget > driverCount =>
                  EstimateShortestPathCost(s, d, budget)
                      = EstimateShortestPathCost(s, d, driverCount)

\* Three drivers in a row, the third between the first two: with budget 3 the
\* cost from driver 1 to driver 2 is that of the detour, below the direct
\* squared distance, which budget 2 returns.
C27_Witness ==
    /\ driverCount = 3
    /\ EstimateShortestPathCostResult(1, 2, 3) = "Ok"
    /\ EstimateShortestPathCost(1, 2, 3) = C27_Edge(1, 3) + C27_Edge(3, 2)
    /\ EstimateShortestPathCost(1, 2, 3) < C27_Edge(1, 2)
    /\ EstimateShortestPathCost(1, 2, 2) = C27_Edge(1, 2)
    /\ EstimateShortestPathCost(1, 2, MaxRecords + 1)
          = EstimateShortestPathCost(1, 2, 3)

\* Every round of every query with distinct source and destination within
\* the clamped budget: the node selected is unvisited and of least tentative
\* distance among the unvisited; among the unvisited nodes at that distance
\* it comes first in the order Before; the destination is selected in the
\* last round and in no other, and what the query returns is the
\* destination's tentative distance in that round.
C28_Rounds(Before(_, _)) ==
    \A s \in Registered, d \in Registered, budget \in PathBudgets :
        LET k == DriversToCheck(budget) IN
        s # d /\ s <= k /\ d <= k =>
            LET rounds == EstimateRounds(s, d, budget) IN
            /\ Len(rounds) >= 1
            /\ \A i \in 1 .. Len(rounds) :
                  LET round == rounds[i]
                      unvisited == {j \in 1 .. k : ~round.visited[j]}
                  IN  /\ round.minIndex \in unvisited
                      /\ \A j \in unvisited :
                            /\ round.distances[round.minIndex]
                                  <= round.distances[j]
                            /\ round.distances[round.minIndex]
                                  = round.distances[j]
                                  => Before(round.minIndex, j)
                      /\ round.minIndex = d <=> i = Len(rounds)
            /\ EstimateShortestPathCost(s, d, budget)
                  = rounds[Len(rounds)].distances[d]

C28_LowestFirst(a, b) == a <= b
C28_HighestFirst(a, b) == a >= b

\* C28 (as stated): each round selects an unvisited node of smallest
\* tentative distance, the one of lowest id when several share it; the search
\* stops the moment the destination is selected.
C28_SelectsLowestId == C28_Rounds(C28_LowestFirst)

\* C28 (amended): each round selects an unvisited node of smallest tentative
\* distance, the one of highest id when several share it; the search stops
\* the moment the destination is selected.
C28_SelectsHighestId == C28_Rounds(C28_HighestFirst)

\* Driver 1 half way between drivers 2 and 3: in the second round of the
\* query from 1 to 2 both are unvisited at the same distance, driver 3 is
\* selected, and the destination only in the third round.
C28_Witness ==
    /\ driverCount = 3
    /\ LET rounds == EstimateRounds(1, 2, 3) IN
       /\ Len(rounds) = 3
       /\ rounds[1].minIndex = 1
       /\ rounds[2].distances[2] = rounds[2].distances[3]
       /\ rounds[2].minIndex = 3
       /\ rounds[3].minIndex = 2

\* C29 (steps): a step changes the record of at most one existing ride, and
\* then it is a matchRide, startRide, completeRide or cancelRide of that ride;
\* it leaves the ride's id, requester, places, fare and timestamp alone,
\* writes assignedDriverId only when it matches the ride, and registers no
\* driver, changes no driver, creates no ride and changes no fee level.  A
\* Requested ride is Requested, Matched or Cancelled after any step.
C29_RideStep ==
    LET changed == {r \in RideIds :
                       Exists(r) /\ rideRequests'[r] # rideRequests[r]}
    IN  /\ Cardinality(changed) <= 1
        /\ \A r \in changed :
              LET old == rideRequests[r]
                  new == rideRequests'[r]
              IN  /\ new = [old EXCEPT !.status = new.status,
                                       !.assignedDriverId = new.assignedDriverId]
                  /\ new.assignedDriverId # old.assignedDriverId
                        => Moves(r, "Requested", "Matched")
                  /\ \/ \E sender \in Identities : MatchRide(sender, r)
                     \/ \E sender \in Identities : StartRide(sender, r)
                     \/ \E sender \in Identities, a \in BOOLEAN, b \in BOOLEAN :
                           CompleteRide(sender, r, a, b)
                     \/ \E sender \in Identities, a \in BOOLEAN :
                           CancelRide(sender, r, a)
                  /\ drivers' = drivers /\ driverCount' = driverCount
                  /\ rideCount' = rideCount
                  /\ platformFeePercent' = platformFeePercent
        /\ \A r \in RideIds : Exists(r) /\ StatusOf(r) = "Requested" =>
              rideRequests'[r].status \in {"Requested", "Matched", "Cancelled"}

\* C29: a ride's record changes only in a step that is the matchRide,
\* startRide, completeRide or cancelRide of that ride; calls on other rides,
\* registrations, location and availability updates and fee changes leave it
\* as it is, so a Requested ride stays Requested until matched or cancelled.
C29_RideFrame == [][C29_RideStep]_vars

\* The first ride still Requested after the second, created later, was
\* matched, started and completed, the driver went off duty and the fee
\* level was changed.
C29_Witness ==
    /\ Exists(1) /\ StatusOf(1) = "Requested"
    /\ Exists(2) /\ StatusOf(2) = "Completed"
    /\ rideRequests[1].assignedDriverId = 0
    /\ platformFeePercent # InitialFeePercent
    /\ \E d \in DriverIds : drivers[d].id > 0 /\ ~drivers[d].isAvailable

\* The sum of the fares of the rides of a set.
RECURSIVE C30_Fares(_)
C30_Fares(rides) ==
    IF rides = {} THEN 0
    ELSE LET r == CHOOSE r \in rides : TRUE
         IN  rideRequests[r].fare + C30_Fares(rides \ {r})

\* C30: the contract holds exactly the fares of the rides that are Requested,
\* Matched or InProgress; the fare of a Cancelled or Completed ride has left
\* it, once: the identities together hold what they started with less the
\* fares in escrow.
C30_EscrowSolvent ==
    LET active == {r \in RideIds :
                      Exists(r) /\ StatusOf(r) \in
                          {"Requested", "Matched", "InProgress"}}
        held == balance["owner"] + balance["alice"] + balance["dave"]
    IN  /\ balance[Contract] = C30_Fares(active)
        /\ held + balance[Contract] = Cardinality(Identities) * InitialFunds
        /\ \A a \in Accounts : balance[a] >= 0

\* One ride settled at a fee level above 0 and one ride still in escrow: the
\* contract holds the fare of the second only.
C30_Witness ==
    \E r1 \in RideIds, r2 \in RideIds :
        /\ StatusOf(r1) = "Completed"
        /\ Exists(r2) /\ StatusOf(r2) = "Requested"
        /\ platformFeePercent > 0
        /\ balance[owner] > InitialFunds
        /\ balance[Contract] = rideRequests[r2].fare

\* C31 (step): a step that completes a ride pays the platform owner at most
\* a tenth of the fare, rounded down, and the owner of the assigned driver at
\* least the fare less that tenth and at most the fare; the fee computed in
\* the state the step is taken from is not above the fare, so the subtraction
\* fare - fee is not negative (one identity in both roles receives the fare).
C31_CompletionStep(r) ==
    Moves(r, "InProgress", "Completed") =>
        LET fare == rideRequests[r].fare
            driver == DriverOwnerOf(r)
            tenth == fare \div 10
            ownerGain == balance'[owner] - balance[owner]
            driverGain == balance'[driver] - balance[driver]
        IN  /\ PlatformFee(fare, platformFeePercent) \in 0 .. tenth
            /\ DriverPayment(fare, platformFeePercent) \in (fare - tenth) .. fare
            /\ IF driver = owner
               THEN ownerGain = fare
               ELSE /\ ownerGain \in 0 .. tenth
                    /\ driverGain \in (fare - tenth) .. fare

\* C31: whatever fee updates came before, completing a ride takes a fee of at
\* most floor(fare / 10) and pays the driver at least fare - floor(fare / 10)
\* and at most the fare.
C31_FeeWithinTenth == [][\A r \in RideIds : C31_CompletionStep(r)]_vars

\* A ride completed at the highest fee level, 1000, set by an update after
\* the default 250: of the fare 1000 the platform owner holds 100 and the
\* driver's owner 900.
C31_Witness ==
    /\ rideCount = 1
    /\ StatusOf(1) = "Completed"
    /\ rideRequests[1].fare = 1000
    /\ DriverOwnerOf(1) # owner
    /\ platformFeePercent = MaxFeePercent
    /\ balance[owner] = InitialFunds + 100
    /\ balance[DriverOwnerOf(1)] = InitialFunds + 900

\* C32 (state): the assignedDriverId of an existing ride is 0 or the id of a
\* registered driver, and it is 0 exactly while the ride has never been
\* matched, that is while it is Requested or was cancelled before a match.
C32_AssignedRegistered ==
    \A r \in RideIds : Exists(r) =>
        LET d == rideRequests[r].assignedDriverId IN
        /\ d \in 0 .. driverCount
        /\ d # 0 => drivers[d].id = d
        /\ StatusOf(r) \in {"Matched", "InProgress", "Completed"} => d # 0
        /\ StatusOf(r) = "Requested" => d = 0

\* C32 (step): no step changes an assignedDriverId that is not 0.
C32_AssignedStep ==
    \A r \in RideIds :
        Exists(r) /\ rideRequests[r].assignedDriverId # 0 =>
            rideRequests'[r].assignedDriverId = rideRequests[r].assignedDriverId

\* C32: once matchRide has set a ride's assignedDriverId it never changes,
\* through startRide, completeRide, cancelRide or the match of another ride,
\* and it is the id of a registered driver.
C32_AssignedStable == []C32_AssignedRegistered /\ [][C32_AssignedStep]_vars

\* Ride 1 was matched and then cancelled and still names its driver, and
\* ride 2 went to Completed with the same driver.
C32_Witness ==
    /\ StatusOf(1) = "Cancelled"
    /\ StatusOf(2) = "Completed"
    /\ rideRequests[1].assignedDriverId \in 1 .. driverCount
    /\ rideRequests[2].assignedDriverId = rideRequests[1].assignedDriverId

\* The ids of a list, how often an id occurs in it, and whether one list
\* begins with another.
C33_Ids(list) == {list[i] : i \in 1 .. Len(list)}
C33_Count(list, r) == Cardinality({i \in 1 .. Len(list) : list[i] = r})
C33_Prefix(short, long) ==
    /\ Len(short) <= Len(long)
    /\ \A i \in 1 .. Len(short) : long[i] = short[i]

\* C33 (state): a requester's list holds exactly the ids of the rides that
\* requester created, in increasing order; over all driver-owner histories an
\* existing ride occurs once if it has an assigned driver, then under the
\* owner of that driver, whatever its status, and not at all otherwise; no
\* other id occurs.
C33_IndexesExact ==
    /\ \A a \in Identities :
          LET list == passengerRides[a] IN
          /\ C33_Ids(list) =
                {r \in RideIds : Exists(r) /\ rideRequests[r].passenger = a}
          /\ \A i \in 1 .. Len(list), j \in 1 .. Len(list) :
                i < j => list[i] < list[j]
    /\ \A a \in Identities :
          C33_Ids(driverRides[a]) \subseteq {r \in RideIds : Exists(r)}
    /\ \A r \in RideIds : Exists(r) =>
          LET d == rideRequests[r].assignedDriverId IN
          \A a \in Identities :
              C33_Count(driverRides[a], r) =
                  IF d # 0 /\ drivers[d].driverAddress = a THEN 1 ELSE 0

\* C33 (step): a step leaves each list as it is or appends to it.
C33_AppendStep ==
    \A a \in Identities :
        /\ C33_Prefix(passengerRides[a], passengerRides'[a])
        /\ C33_Prefix(driverRides[a], driverRides'[a])

\* C33: the requester lists and the driver-owner histories are append-only
\* and without duplicates; a requester's list is the increasing list of the
\* rides the requester created; a ride is in one history, that of the owner of
\* its assigned driver, from its match on, also after a cancel.
C33_IndexesAppendOnly == []C33_IndexesExact /\ [][C33_AppendStep]_vars

\* alice created rides 1 and 2; dave's driver was matched to ride 2 and then
\* to ride 1, and ride 1 was cancelled after that and is still in the history.
C33_Witness ==
    /\ passengerRides["alice"] = <<1, 2>>
    /\ driverRides["dave"] = <<2, 1>>
    /\ StatusOf(1) = "Cancelled"

\* C34: for two registered drivers both within the first
\* min(budget, driverCount) ids, the path-cost query from the first to the
\* second and the query from the second to the first both return, and return
\* the same cost.
C34_Symmetric ==
    \A s \in Registered, d \in Registered, budget \in PathBudgets :
        s <= DriversToCheck(budget) /\ d <= DriversToCheck(budget) =>
            /\ EstimateShortestPathCostResult(s, d, budget) = "Ok"
            /\ EstimateShortestPathCostResult(d, s, budget) = "Ok"
            /\ EstimateShortestPathCost(s, d, budget)
                  = EstimateShortestPathCost(d, s, budget)

\* Three drivers, the second between the first and the third: the query from
\* 1 to 3 selects 1, 2, 3 and the query from 3 to 1 selects 3, 2, 1; both
\* return the cost of the detour through 2, below the direct distance.
C34_Witness ==
    /\ driverCount = 3
    /\ EstimateShortestPathCostResult(1, 3, 3) = "Ok"
    /\ EstimateShortestPathCostResult(3, 1, 3) = "Ok"
    /\ LET there == EstimateRounds(1, 3, 3)
           back == EstimateRounds(3, 1, 3)
       IN  /\ [i \in 1 .. Len(there) |-> there[i].minIndex] = <<1, 2, 3>>
           /\ [i \in 1 .. Len(back) |-> back[i].minIndex] = <<3, 2, 1>>
    /\ EstimateShortestPathCost(1, 3, 3) = EstimateShortestPathCost(3, 1, 3)
    /\ EstimateShortestPathCost(1, 3, 3)
          = DriverDistance(1, 2) + DriverDistance(2, 3)
    /\ EstimateShortestPathCost(1, 3, 3) < DriverDistance(1, 3)

\* C35: for registered source and destination ids both at
\* most a budget k, and a budget k2 not below k, the path-cost query returns
\* for both budgets, what it returns for k2 is at most what it returns for k,
\* and neither is above the squared distance between the two drivers.
C35_MonotoneInBudget ==
    \A s \in Registered, d \in Registered :
        \A k \in PathBudgets, k2 \in PathBudgets :
            s <= k /\ d <= k /\ k <= k2 =>
                /\ EstimateShortestPathCostResult(s, d, k) = "Ok"
                /\ EstimateShortestPathCostResult(s, d, k2) = "Ok"
                /\ EstimateShortestPathCost(s, d, k2)
                      <= EstimateShortestPathCost(s, d, k)
                /\ EstimateShortestPathCost(s, d, k)
                      <= DriverDistance(s, d)

\* Some pair of drivers whose cost drops when the budget grows from one that
\* leaves out a driver between them to one that takes it in, and a second
\* pair, in the same state, whose cost is the direct distance at every budget.
C35_Witness ==
    /\ \E s \in Registered, d \in Registered, k \in PathBudgets :
          /\ s <= k /\ d <= k /\ k + 1 \in PathBudgets
          /\ EstimateShortestPathCost(s, d, k + 1)
                < EstimateShortestPathCost(s, d, k)
          /\ EstimateShortestPathCost(s, d, k) = DriverDistance(s, d)
    /\ \E s \in Registered, d \in Registered :
          /\ s # d
          /\ \A k \in PathBudgets : s <= k /\ d <= k =>
                EstimateShortestPathCost(s, d, k) = DriverDistance(s, d)

\* The place of a uuid in the order of first announcements.
C36_Position(uuid) == CHOOSE i \in 1 .. Len(announced) : announced[i] = uuid

\* No two entries of the store have the same uuid.
C36_NoDuplicate ==
    \A i \in 1 .. Len(providers), j \in 1 .. Len(providers) :
        providers[i].uuid = providers[j].uuid => i = j

\* A step leaves the store as it is or adds entries at its end.
C36_GrowsAtEnd ==
    /\ Len(providers) <= Len(providers')
    /\ \A i \in 1 .. Len(providers) : providers'[i] = providers[i]

\* The entries of the store are in the order in which their uuids were first
\* announced.
C36_FirstAnnouncementOrder ==
    \A i \in 1 .. Len(providers), j \in 1 .. Len(providers) :
        /\ \E k \in 1 .. Len(announced) : announced[k] = providers[i].uuid
        /\ i < j => C36_Position(providers[i].uuid)
                       < C36_Position(providers[j].uuid)

\* C36 as claimed: whatever announcements, subscribe and unsubscribe calls
\* came before, the store holds no two providers with the same uuid, no step
\* removes a provider, and the providers are in the order of their first
\* announcement.
C36_OrderOfFirstAnnouncement ==
    /\ [](C36_NoDuplicate /\ C36_FirstAnnouncementOrder)
    /\ [][C36_GrowsAtEnd]_appVars

\* C36 (step): the store changes only in a step that announces a detail with
\* a uuid it does not hold while a listener is on the window, and then by that
\* detail added at its end; an announcement with no listener on the window, or
\* of a uuid the store holds, changes nothing.
C36_StoreStep ==
    /\ C36_GrowsAtEnd
    /\ providers' # providers =>
          /\ listeners # <<>>
          /\ \E detail \in ProviderDetails :
                /\ detail.uuid \notin KnownUuids(providers)
                /\ Announce(detail)
                /\ providers' = Append(providers, detail)
    /\ \A detail \in ProviderDetails :
          Announce(detail)
              /\ (listeners = <<>> \/ detail.uuid \in KnownUuids(providers))
          => providers' = providers

\* C36: the store holds no two providers with the same uuid, no step removes
\* a provider, and the providers are in the order in which they were added:
\* the order of the first announcement of each uuid that arrived while a
\* listener was subscribed.
C36_OrderOfInsertion ==
    /\ [](C36_NoDuplicate /\ KnownUuids(providers) \subseteq
             {announced[k] : k \in 1 .. Len(announced)})
    /\ [][C36_StoreStep]_appVars

\* uuid-1 was announced first, with nobody subscribed, and again after
\* uuid-2: the store lists uuid-2 before uuid-1 and keeps both after the last
\* unsubscribe.
C36_Witness ==
    /\ announced = <<"uuid-1", "uuid-2">>
    /\ Len(providers) = 2
    /\ providers[1].uuid = "uuid-2"
    /\ providers[2].uuid = "uuid-1"
    /\ listeners = <<>>

\* C37 (step): in a step that announces a detail with a uuid the store does
\* not hold, every callback subscribed at that moment is called once, and no
\* other callback is called.
C37_AnnouncementStep ==
    \A detail \in ProviderDetails :
        Announce(detail) /\ detail.uuid \notin KnownUuids(providers) =>
            \A callback \in Callbacks :
                callbackCalls'[callback] =
                    IF \E i \in 1 .. Len(listeners) : listeners[i] = callback
                    THEN callbackCalls[callback] + 1
                    ELSE callbackCalls[callback]

\* C37: when a provider with a uuid not yet in the store is announced, every
\* callback subscribed to the store at that moment is called for that
\* announcement.
C37_EverySubscriberCalled == [][C37_AnnouncementStep]_appVars

\* C38 (state): isAuthenticated holds exactly when userAccount is neither
\* null nor the empty string; the router shows the Home page at "/home" when
\* it holds and the Authentication page at "/" when it does not, and never a
\* Navigate that has not been followed.
C38_RouteMatchesSession ==
    /\ IsAuthenticated <=> userAccount \notin {Null, ""}
    /\ RenderedPage \in {"Home", "Authentication"}
    /\ RenderedPage = "Home" <=> userAccount \notin {Null, ""}
    /\ RenderedPage = "Home" <=> path = "/home"
    /\ RenderedPage = "Authentication" <=> path = "/"

\* C38 (step): a logout leaves userAccount and selectedWallet null and the
\* router on the Authentication page at "/".
C38_LogoutStep ==
    Logout =>
        /\ userAccount' = Null
        /\ selectedWallet' = NullWallet
        /\ path' = "/"
        /\ RouteElement(Truthy(userAccount'), path').kind = "Authentication"

\* C38: isAuthenticated holds exactly when userAccount is a non-empty value;
\* Home is rendered only while authenticated and Authentication only while
\* not; logout clears userAccount and selectedWallet and brings the app back
\* to the unauthenticated route.
C38_SessionRoutes == []C38_RouteMatchesSession /\ [][C38_LogoutStep]_appVars

\* Logged out after a session that began while a second connect request was
\* in flight: the account and the wallet are null, the router is on "/", and
\* the request of the unmounted page is still unanswered.
C38_Witness ==
    /\ userAccount = Null
    /\ selectedWallet = NullWallet
    /\ path = "/"
    /\ RenderedPage = "Authentication"
    /\ \E u \in Uuids : pending[u] = "stale"

====
